---- MODULE Spec2Model ----
(***************************************************************************)
(* A model of the BMP image-processing program: the binary I/O helpers,    *)
(* the 24-bit and the 8-bit codecs, the point operations, the convolution  *)
(* filters, histogram equalization and the menu of main.  Files are byte   *)
(* sequences, header structures are decoded from and encoded to            *)
(* little-endian bytes, float and double arithmetic is rounded as the      *)
(* machine rounds it, and every library call and every menu choice is one  *)
(* action.                                                                 *)
(***************************************************************************)
EXTENDS Integers, Sequences, FiniteSets, TLC

VARIABLES
    disk,     \* the file at the path the calls use: [exists, bytes]; under
              \* the menu, the files by path
    img24,    \* the caller's t_bmp24 handle (NULL24 or an image)
    img8,     \* the caller's t_bmp8 handle (NULL8 or an image)
    last,     \* the most recent library call: its inputs and its outcome
    last2,    \* the call before it
    calls,    \* number of library calls made so far
    image_loaded,      \* the menu's image_loaded: 0, 8 or 24
    current_filename,  \* the menu's current_filename
    heap      \* the images the loaders returned to the menu and their frees

\* the globals of the menu besides the two handles, and the heap behind them
menu == <<image_loaded, current_filename, heap>>

vars == <<disk, img24, img8, last, last2, calls, menu>>

\* heap.frees[i]: how often the i-th image a loader returned to the menu has
\* been freed; heap.at8, heap.at24: the image current_img8 and current_img24
\* point to (0: NULL)
NoHeap == [frees |-> <<>>, at8 |-> 0, at24 |-> 0]

\* the program as it starts, and the state of a caller of the library that
\* is not the menu
NoMenu == image_loaded = 0 /\ current_filename = "" /\ heap = NoHeap

----------------------------------------------------------------------------
(* Bounds of the model *)

\* largest image width among the files on disk (4 covers row paddings 1,2,3,0)
MaxWidth == 4
\* largest image height among the files on disk
MaxHeight == 2
\* number of load/save calls in a run of the codec specifications
MaxCalls == 3
\* number of point operations in a run of the point-operation specification
MaxEdits == 2

----------------------------------------------------------------------------
(* Machine integers and the memory layout of the packed structures.       *)
(* A 32-bit quantity is modelled by its bit pattern read as a two's        *)
(* complement number, INT_MIN..INT_MAX: for an unsigned C variable a       *)
(* negative model value v stands for v + 2^32.  Sums and products of       *)
(* 32-bit quantities wrap as the machine's do.                             *)

Min(a, b) == IF a < b THEN a ELSE b

Max(a, b) == IF a > b THEN a ELSE b

INT_MAX == (2 ^ 30 - 1) + 2 ^ 30

INT_MIN == -INT_MAX - 1

\* value of an expression stored into a uint8_t / unsigned char
U8(v) == v % 256

\* value of an expression stored into a uint16_t / unsigned short
U16(v) == v % 65536

\* the n bytes of a value as they lie in memory (little-endian, two's
\* complement)
LE(v, n) == [i \in 1..n |-> (v \div (256 ^ (i - 1))) % 256]

RECURSIVE RdLE(_, _, _)
\* the unsigned value of the n <= 3 bytes of buf at 0-based offset pos
RdLE(buf, pos, n) ==
    IF n = 0 THEN 0 ELSE buf[pos + 1] + 256 * RdLE(buf, pos + 1, n - 1)

\* the 32-bit quantity in the 4 bytes of buf at 0-based offset pos
Rd32(buf, pos) ==
    RdLE(buf, pos, 3)
      + 16777216 * (IF buf[pos + 4] >= 128 THEN buf[pos + 4] - 256
                    ELSE buf[pos + 4])

\* a + b in 32 bits
AddW(a, b) ==
    LET A == LE(a, 4)
        B == LE(b, 4)
        c1 == A[1] + B[1]
        c2 == A[2] + B[2] + c1 \div 256
        c3 == A[3] + B[3] + c2 \div 256
        c4 == A[4] + B[4] + c3 \div 256
    IN  Rd32(<<c1 % 256, c2 % 256, c3 % 256, c4 % 256>>, 0)

\* a * b in 32 bits
MulW(a, b) ==
    LET A == LE(a, 4)
        B == LE(b, 4)
        c1 == A[1] * B[1]
        c2 == A[1] * B[2] + A[2] * B[1] + c1 \div 256
        c3 == A[1] * B[3] + A[2] * B[2] + A[3] * B[1] + c2 \div 256
        c4 == A[1] * B[4] + A[2] * B[3] + A[3] * B[2] + A[4] * B[1]
                + c3 \div 256
    IN  Rd32(<<c1 % 256, c2 % 256, c3 % 256, c4 % 256>>, 0)

\* abs() of <stdlib.h> on int: abs(INT_MIN) cannot be represented and the
\* two's-complement negation gives INT_MIN back
abs(v) == IF v = INT_MIN THEN INT_MIN ELSE IF v < 0 THEN -v ELSE v

Zeros(n) == [i \in 1..n |-> 0]

----------------------------------------------------------------------------
(* float and double: binary floating point, round to nearest even *)

\* Mantissas are natural numbers held as sequences of 15-bit limbs, least
\* significant first, without leading zero limbs; <<>> is 0
LimbBase == 2 ^ 15

\* the limbs of n, 0 <= n <= INT_MAX
Limbs(n) ==
    IF n = 0 THEN <<>>
    ELSE IF n < LimbBase THEN <<n>>
    ELSE IF n \div LimbBase < LimbBase THEN <<n % LimbBase, n \div LimbBase>>
    ELSE <<n % LimbBase, (n \div LimbBase) % LimbBase,
           (n \div LimbBase) \div LimbBase>>

\* the number of limbs X when it is below 2^30
ToInt(X) ==
    IF X = <<>> THEN 0
    ELSE IF Len(X) = 1 THEN X[1]
    ELSE X[1] + LimbBase * X[2]

RECURSIVE Norm(_)
\* X without leading zero limbs
Norm(X) ==
    IF X = <<>> THEN <<>>
    ELSE IF X[Len(X)] = 0 THEN Norm(SubSeq(X, 1, Len(X) - 1))
    ELSE X

RECURSIVE MulC(_, _, _)
\* X * n + c for 0 <= n <= 2^15, 0 <= c < 2^15
MulC(X, n, c) ==
    IF X = <<>> THEN Limbs(c)
    ELSE LET t == X[1] * n + c
         IN  <<t % LimbBase>> \o MulC(Tail(X), n, t \div LimbBase)

RECURSIVE AddC(_, _, _)
\* X + Y + c
AddC(X, Y, c) ==
    IF X = <<>> /\ Y = <<>> THEN Limbs(c)
    ELSE LET x == IF X = <<>> THEN 0 ELSE X[1]
             y == IF Y = <<>> THEN 0 ELSE Y[1]
             t == x + y + c
         IN  <<t % LimbBase>>
               \o AddC(IF X = <<>> THEN <<>> ELSE Tail(X),
                       IF Y = <<>> THEN <<>> ELSE Tail(Y), t \div LimbBase)

\* X * 2^k
Shl(X, k) ==
    IF X = <<>> THEN <<>>
    ELSE Zeros(k \div 15) \o Norm(MulC(X, 2 ^ (k % 15), 0))

\* X * n for 0 <= n < 2^30
MulInt(X, n) ==
    Norm(AddC(MulC(X, n % LimbBase, 0),
              Shl(MulC(X, n \div LimbBase, 0), 15), 0))

RECURSIVE DivRem(_, _)
\* quotient and remainder of X by d, 0 < d <= 2^15
DivRem(X, d) ==
    IF X = <<>> THEN [q |-> <<>>, r |-> 0]
    ELSE LET hi == DivRem(Tail(X), d)
             t  == hi.r * LimbBase + X[1]
         IN  [q |-> <<t \div d>> \o hi.q, r |-> t % d]

\* floor(X / 2^k)
Shr(X, k) ==
    IF k \div 15 >= Len(X) THEN <<>>
    ELSE Norm(DivRem(SubSeq(X, k \div 15 + 1, Len(X)), 2 ^ (k % 15)).q)

RECURSIVE BitLenInt(_)
\* the number of bits of n >= 0
BitLenInt(n) == IF n = 0 THEN 0 ELSE 1 + BitLenInt(n \div 2)

\* the number of bits of X
BitLen(X) ==
    IF X = <<>> THEN 0 ELSE 15 * (Len(X) - 1) + BitLenInt(X[Len(X)])

Odd(X) == X # <<>> /\ X[1] % 2 = 1

\* X / 2^k rounded to the nearest integer, ties to even; sticky: the exact
\* value lies above X by less than one unit
RoundShift(X, k, sticky) ==
    IF k = 0 THEN X
    ELSE LET q    == Shr(X, k)
             half == Shr(X, k - 1)
             rest == sticky \/ Shl(half, k - 1) # X
         IN  IF Odd(half) /\ (rest \/ Odd(q)) THEN Norm(AddC(q, <<>>, 1))
             ELSE q

\* a floating-point value m * 2^e, m >= 0
Fp(m, e) == [m |-> m, e |-> e]

\* the value of an int n >= 0
FpInt(n) == Fp(Limbs(n), 0)

\* the nearest value with a mantissa of p bits (float: 24, double: 53)
FpRound(v, p, sticky) ==
    LET k == BitLen(v.m) - p
    IN  IF k <= 0 THEN v ELSE Fp(RoundShift(v.m, k, sticky), v.e + k)

\* a * n in precision p, n an int 0 <= n < 2^30
FpMulInt(v, n, p) == FpRound(Fp(MulInt(v.m, n), v.e), p, FALSE)

\* a + b in precision p
FpAdd(a, b, p) ==
    LET e == Min(a.e, b.e)
    IN  IF a.m = <<>> THEN FpRound(b, p, FALSE)
        ELSE IF b.m = <<>> THEN FpRound(a, p, FALSE)
        ELSE FpRound(Fp(Norm(AddC(Shl(a.m, a.e - e), Shl(b.m, b.e - e), 0)),
                        e),
                     p, FALSE)

\* a / b in precision p for ints 0 < a < 2^15, 0 < b <= 2^15: the value of the
\* literal or of the division of two exactly represented values
FpRatio(a, b, p) ==
    LET s  == p + 16 + BitLenInt(b)
        qr == DivRem(Shl(Limbs(a), s), b)
    IN  FpRound(Fp(Norm(qr.q), -s), p, qr.r # 0)

\* (int)v: truncation, for values below 2^30
FpTrunc(v) ==
    IF v.e >= 0 THEN ToInt(Shl(v.m, v.e)) ELSE ToInt(Shr(v.m, -v.e))

\* round(v) of <math.h>: nearest integer, ties away from zero, as limbs
FpRoundHalfUp(v) ==
    IF v.e >= 0 THEN Shl(v.m, v.e)
    ELSE LET q == Shr(v.m, -v.e)
         IN  IF Odd(Shr(v.m, -v.e - 1)) THEN Norm(AddC(q, <<>>, 1)) ELSE q

RECURSIVE MulLimbs(_, _)
\* X * Y
MulLimbs(X, Y) ==
    IF X = <<>> \/ Y = <<>> THEN <<>>
    ELSE Norm(AddC(MulC(X, Y[1], 0), <<0>> \o MulLimbs(X, Tail(Y)), 0))

RECURSIVE SubB(_, _, _)
\* X - Y - b for X >= Y + b
SubB(X, Y, b) ==
    IF X = <<>> THEN <<>>
    ELSE LET t == X[1] - (IF Y = <<>> THEN 0 ELSE Y[1]) - b
         IN  <<t % LimbBase>>
               \o SubB(Tail(X), IF Y = <<>> THEN <<>> ELSE Tail(Y),
                       IF t < 0 THEN 1 ELSE 0)

RECURSIVE Cmp(_, _)
\* -1, 0 or 1 as X is below, equal to or above Y
Cmp(X, Y) ==
    IF Len(X) # Len(Y) THEN (IF Len(X) < Len(Y) THEN -1 ELSE 1)
    ELSE IF X = <<>> THEN 0
    ELSE IF X[Len(X)] # Y[Len(Y)]
      THEN (IF X[Len(X)] < Y[Len(Y)] THEN -1 ELSE 1)
    ELSE Cmp(Norm(SubSeq(X, 1, Len(X) - 1)), Norm(SubSeq(Y, 1, Len(Y) - 1)))

\* a floating-point value with its sign: -v if neg, zero has no sign here
\* (no operation of the program tells -0 from 0)
Signed(neg, v) == [neg |-> neg /\ v.m # <<>>, m |-> v.m, e |-> v.e]

\* (float)n for an int n >= 0 of at most 24 bits
FpOfInt(n) == Signed(FALSE, FpInt(n))

\* the literal a / 10^digits in precision p, 0 < a < 2^30, digits <= 5:
\* a / 5^digits rounded, and the division by 2^digits, which is exact
FpDec(a, digits, p) ==
    LET r == FpRatio(a, 5 ^ digits, p)
    IN  Signed(FALSE, Fp(r.m, r.e - digits))

FpNeg(a) == Signed(~a.neg, a)

\* a * b in precision p
FpMul(a, b, p) ==
    Signed(a.neg # b.neg,
           FpRound(Fp(MulLimbs(a.m, b.m), a.e + b.e), p, FALSE))

\* a + b of signed values in precision p
FpSum(a, b, p) ==
    LET e == Min(a.e, b.e)
        A == Shl(a.m, a.e - e)
        B == Shl(b.m, b.e - e)
        c == Cmp(A, B)
    IN  IF a.neg = b.neg THEN Signed(a.neg, FpAdd(a, b, p))
        ELSE IF c = 0 THEN Signed(FALSE, Fp(<<>>, 0))
        ELSE IF c > 0
          THEN Signed(a.neg, FpRound(Fp(Norm(SubB(A, B, 0)), e), p, FALSE))
        ELSE Signed(b.neg, FpRound(Fp(Norm(SubB(B, A, 0)), e), p, FALSE))

\* a - b of signed values in precision p
FpDiff(a, b, p) == FpSum(a, FpNeg(b), p)

\* a > b for values a, b >= 0
FpAbove(a, b) ==
    LET e == Min(a.e, b.e)
    IN  Cmp(Shl(a.m, a.e - e), Shl(b.m, b.e - e)) > 0

FloatBits == 24

DoubleBits == 53

----------------------------------------------------------------------------
(* Files and <stdio.h> *)

NoFile == [exists |-> FALSE, bytes |-> <<>>]

File(bytes) == [exists |-> TRUE, bytes |-> bytes]

\* fseek(file, pos, SEEK_SET): pos is passed as long; on a build whose long
\* has 32 bits an offset of 2^31 or more is negative and the seek fails
fseekOk(pos, env) == env.longBits = 64 \/ pos >= 0

\* the bytes fread(buf, 1, n, file) obtains at 0-based position pos: fewer
\* than n at end of file (a position or a count of 2^31 or more, a negative
\* model value, is past the end of every file)
fread(bytes, pos, n) ==
    IF pos < 0 \/ pos >= Len(bytes) THEN <<>>
    ELSE IF n < 0 \/ n >= Len(bytes) - pos THEN SubSeq(bytes, pos + 1, Len(bytes))
    ELSE SubSeq(bytes, pos + 1, pos + n)

\* fwrite(buf, 1, Len(buf), file) at 0-based position pos on a device that
\* holds at most cap bytes of this file: the bytes that fit are written, a
\* gap left by a seek past the end reads as zero
fwrite(bytes, pos, buf, cap) ==
    LET n == Max(0, Min(Len(buf), cap - pos))
    IN  [bytes |-> IF n = 0 THEN bytes
                   ELSE SubSeq(bytes, 1, Min(pos, Len(bytes)))
                          \o Zeros(Max(0, pos - Len(bytes)))
                          \o SubSeq(buf, 1, n)
                          \o SubSeq(bytes, pos + n + 1, Len(bytes)),
         n |-> n]

\* file_rawRead(position, buffer, size, 1, file): the buffer afterwards.  The
\* function returns nothing: on a short read it prints a message and the
\* part of the buffer that was not read keeps what it held before (buf0)
file_rawRead(position, buf0, size, bytes) ==
    LET got == fread(bytes, position, size)
    IN  got \o SubSeq(buf0, Len(got) + 1, size)

\* file_rawWrite(position, buffer, size, 1, file): the file afterwards and
\* whether the write was complete.  The function returns nothing
file_rawWrite(position, buf, bytes, cap) ==
    LET w == fwrite(bytes, position, buf, cap)
    IN  [bytes |-> w.bytes, ok |-> w.n = Len(buf)]

----------------------------------------------------------------------------
(* bmp24.h *)

BMP_TYPE == 19778

BMP_HEADER_SIZE == 14

BMP_INFO_SIZE == 40

DEFAULT_COLOR_DEPTH == 24

\* sizeof(t_pixel)
PixelSize == 3

\* a decoder of the file header that does not read the type field from the
\* bytes
t_bmp_header_typeless(buf) ==
    [type      |-> BMP_TYPE,
     size      |-> Rd32(buf, 2),
     reserved1 |-> RdLE(buf, 6, 2),
     reserved2 |-> RdLE(buf, 8, 2),
     offset    |-> Rd32(buf, 10)]

\* t_bmp_header decoded from its 14 bytes
t_bmp_header(buf) ==
    [type      |-> RdLE(buf, 0, 2),
     size      |-> Rd32(buf, 2),
     reserved1 |-> RdLE(buf, 6, 2),
     reserved2 |-> RdLE(buf, 8, 2),
     offset    |-> Rd32(buf, 10)]

\* the 14 bytes of a t_bmp_header
HeaderBytes(h) ==
    LE(h.type, 2) \o LE(h.size, 4) \o LE(h.reserved1, 2)
      \o LE(h.reserved2, 2) \o LE(h.offset, 4)

\* t_bmp_info decoded from its 40 bytes
t_bmp_info(buf) ==
    [size            |-> Rd32(buf, 0),
     width           |-> Rd32(buf, 4),
     height          |-> Rd32(buf, 8),
     planes          |-> RdLE(buf, 12, 2),
     bits            |-> RdLE(buf, 14, 2),
     compression     |-> Rd32(buf, 16),
     imagesize       |-> Rd32(buf, 20),
     xresolution     |-> Rd32(buf, 24),
     yresolution     |-> Rd32(buf, 28),
     ncolors         |-> Rd32(buf, 32),
     importantcolors |-> Rd32(buf, 36)]

\* the 40 bytes of a t_bmp_info
InfoBytes(h) ==
    LE(h.size, 4) \o LE(h.width, 4) \o LE(h.height, 4)
      \o LE(h.planes, 2) \o LE(h.bits, 2)
      \o LE(h.compression, 4) \o LE(h.imagesize, 4)
      \o LE(h.xresolution, 4) \o LE(h.yresolution, 4)
      \o LE(h.ncolors, 4) \o LE(h.importantcolors, 4)

\* t_pixel: three bytes in memory, blue first
t_pixel(b, g, r) == [blue |-> b, green |-> g, red |-> r]

NULL24 == [null |-> TRUE]

NULL8 == [null |-> TRUE]

----------------------------------------------------------------------------
(* bmp24.c: allocation *)

\* the content of heap memory that malloc returned and nobody wrote yet
Uninit(width, height, env) ==
    [y \in 1..height |->
       [x \in 1..width |-> t_pixel(env.garb, env.garb, env.garb)]]

\* bmp24_allocateDataPixels: the matrix, or <<>> for NULL.  first is the
\* number, within the running library call, of the first malloc it makes;
\* env.oom is the number of the malloc that fails (0: none does)
bmp24_allocateDataPixels(width, height, env, first) ==
    IF width <= 0 \/ height <= 0 THEN <<>>
    ELSE IF env.oom = first THEN <<>>
    ELSE IF env.oom = first + 1 THEN <<>>
    ELSE Uninit(width, height, env)

\* a row size without the rounding up to a multiple of 4 bytes
HeaderRowSize_unpadded(width) == width * PixelSize

\* the row size the headers record: ((width * sizeof(t_pixel) * 8 + 31) / 32) * 4,
\* computed in size_t (64 bits) and stored into a uint32_t.  For
\* width = 4 * q + r the 64-bit value is 12 * q + ((24 * r + 31) / 32) * 4,
\* and the store keeps its low 32 bits
HeaderRowSize(width) ==
    LET q == width \div 4
        r == width % 4
    IN  AddW(MulW(q, 4 * PixelSize),
             ((r * PixelSize * 8 + 31) \div 32) * 4)

\* bmp24_allocate: the image, or NULL24
bmp24_allocate(width, height, env) ==
    IF env.oom = 1 THEN NULL24
    ELSE LET data == bmp24_allocateDataPixels(width, height, env, 2)
             offset == BMP_HEADER_SIZE + BMP_INFO_SIZE
             imagesize == MulW(HeaderRowSize(width), abs(height))
         IN  IF data = <<>> THEN NULL24
             ELSE [null       |-> FALSE,
                   width      |-> width,
                   height     |-> height,
                   colorDepth |-> DEFAULT_COLOR_DEPTH,
                   data       |-> data,
                   header     |-> [type      |-> BMP_TYPE,
                                   size      |-> AddW(offset, imagesize),
                                   reserved1 |-> 0,
                                   reserved2 |-> 0,
                                   offset    |-> offset],
                   header_info |-> [size            |-> BMP_INFO_SIZE,
                                    width           |-> width,
                                    height          |-> height,
                                    planes          |-> 1,
                                    bits            |-> DEFAULT_COLOR_DEPTH,
                                    compression     |-> 0,
                                    imagesize       |-> imagesize,
                                    xresolution     |-> 0,
                                    yresolution     |-> 0,
                                    ncolors         |-> 0,
                                    importantcolors |-> 0]]

----------------------------------------------------------------------------
(* bmp24.c: pixel data *)

\* uint32_t padding = (4 - (row_size_unpadded % 4)) % 4
RowPadding(row_size_unpadded) == (4 - (row_size_unpadded % 4)) % 4

\* uint32_t row_size_padded = row_size_unpadded + padding of
\* bmp24_writePixelData, with row_size_unpadded = width * bytes_per_pixel
\* stored into a uint32_t: the number of bytes of one fwrite of a row
WriteRowSize(width) ==
    LET row_size_unpadded == MulW(width, 3)
    IN  AddW(row_size_unpadded, RowPadding(row_size_unpadded))

\* memcpy(image->data[y], row_buffer, row_size_unpadded): a row of t_pixel
\* from the first width*3 bytes of the buffer
RowOfBytes(buf, width) ==
    [x \in 1..width |-> t_pixel(buf[3 * x - 2], buf[3 * x - 1], buf[3 * x])]

RECURSIVE BytesOfRow_rgb(_)
\* the bytes of a row with red stored first
BytesOfRow_rgb(row) ==
    IF row = <<>> THEN <<>>
    ELSE <<row[1].red, row[1].green, row[1].blue>> \o BytesOfRow_rgb(Tail(row))

RECURSIVE BytesOfRow(_)
\* memcpy(row_buffer, image->data[y], row_size_unpadded): the bytes of a row
BytesOfRow(row) ==
    IF row = <<>> THEN <<>>
    ELSE <<row[1].blue, row[1].green, row[1].red>> \o BytesOfRow(Tail(row))

RECURSIVE ReadRows(_, _, _, _, _, _)
\* the loop of bmp24_readPixelData, for (y = height - 1; y >= 0; --y), with
\* the file position at pos: it ends at the first short fread
ReadRows(data, bytes, pos, y, width, row_size_padded) ==
    IF y < 0 THEN data
    ELSE LET row_buffer == fread(bytes, pos, row_size_padded)
         IN  IF Len(row_buffer) # row_size_padded THEN data
             ELSE ReadRows([data EXCEPT ![y + 1] = RowOfBytes(row_buffer, width)],
                           bytes, pos + row_size_padded, y - 1, width,
                           row_size_padded)

\* bmp24_readPixelData: the image afterwards.  The function returns nothing:
\* after a failed seek, a failed malloc of the row buffer or a short read it
\* just returns.  first is the number of its malloc within the library call
bmp24_readPixelData(image, bytes, env, first) ==
    LET width  == image.width
        height == image.height
        offset == image.header.offset
        row_size_unpadded == MulW(width, 3)
        padding == RowPadding(row_size_unpadded)
        row_size_padded == AddW(row_size_unpadded, padding)
    IN  IF image.null \/ image.data = <<>> THEN image
        ELSE IF ~fseekOk(offset, env) THEN image
        ELSE IF env.oom = first THEN image
        ELSE [image EXCEPT !.data =
                ReadRows(image.data, bytes, offset, height - 1, width,
                         row_size_padded)]

RECURSIVE WriteRows_topdown(_, _, _, _, _, _)
\* a loop that writes row 0 first and row height - 1 last
WriteRows_topdown(data, bytes, pos, y, padding, cap) ==
    IF y < 0 THEN [bytes |-> bytes, ok |-> TRUE]
    ELSE LET row_buffer == BytesOfRow(data[Len(data) - y]) \o Zeros(padding)
             w == fwrite(bytes, pos, row_buffer, cap)
         IN  IF w.n # Len(row_buffer) THEN [bytes |-> w.bytes, ok |-> FALSE]
             ELSE WriteRows_topdown(data, w.bytes, pos + Len(row_buffer),
                                    y - 1, padding, cap)

RECURSIVE WriteRows(_, _, _, _, _, _)
\* the loop of bmp24_writePixelData, for (y = height - 1; y >= 0; --y): the
\* file afterwards and whether every fwrite was complete; it ends at the
\* first short fwrite
WriteRows(data, bytes, pos, y, padding, cap) ==
    IF y < 0 THEN [bytes |-> bytes, ok |-> TRUE]
    ELSE LET row_buffer == BytesOfRow(data[y + 1]) \o Zeros(padding)
             w == fwrite(bytes, pos, row_buffer, cap)
         IN  IF w.n # Len(row_buffer) THEN [bytes |-> w.bytes, ok |-> FALSE]
             ELSE WriteRows(data, w.bytes, pos + Len(row_buffer), y - 1,
                            padding, cap)

\* bmp24_writePixelData: the file afterwards and whether all was written.
\* The function returns nothing
bmp24_writePixelData(image, bytes, env, first) ==
    LET width  == image.width
        height == image.height
        offset == image.header.offset
        row_size_unpadded == MulW(width, 3)
        padding == RowPadding(row_size_unpadded)
    IN  IF image.null \/ image.data = <<>> THEN [bytes |-> bytes, ok |-> FALSE]
        ELSE IF ~fseekOk(offset, env) THEN [bytes |-> bytes, ok |-> FALSE]
        ELSE IF env.oom = first THEN [bytes |-> bytes, ok |-> FALSE]
        ELSE WriteRows(image.data, bytes, offset, height - 1, padding, env.cap)

----------------------------------------------------------------------------
(* bmp24.c: loading and saving *)

\* a load whose failing paths return without fclose
LoadResult_leak(ret, fopens, fcloses, error, live) ==
    [ret |-> ret, fopens |-> fopens,
     fcloses |-> IF error = "none" THEN fcloses ELSE 0, error |-> error,
     live |-> live]

\* what a load call leaves behind: the handle it returns, the fopen and
\* fclose calls it made, the step it failed at ("none": it printed "loaded
\* successfully") and the heap blocks it allocated and did not free
LoadResult(ret, fopens, fcloses, error, live) ==
    [ret |-> ret, fopens |-> fopens, fcloses |-> fcloses, error |-> error,
     live |-> live]

\* bmp24_loadImage(filename) with the file at filename being file.  The
\* local structures header and header_info are not initialised: before the
\* reads they hold env.stale, whatever the stack held
bmp24_loadImage(file, env) ==
    IF ~file.exists THEN LoadResult(NULL24, 0, 0, "open", 0)
    ELSE
      LET header == t_bmp_header(
                      file_rawRead(0, SubSeq(env.stale, 1, BMP_HEADER_SIZE),
                                   BMP_HEADER_SIZE, file.bytes))
          header_info == t_bmp_info(
                      file_rawRead(BMP_HEADER_SIZE,
                                   SubSeq(env.stale, BMP_HEADER_SIZE + 1,
                                          BMP_HEADER_SIZE + BMP_INFO_SIZE),
                                   BMP_INFO_SIZE, file.bytes))
          width  == header_info.width
          height == abs(header_info.height)
          img    == bmp24_allocate(width, height, env)
      IN  IF header.type # BMP_TYPE
            THEN LoadResult(NULL24, 1, 1, "signature", 0)
          ELSE IF header_info.bits # DEFAULT_COLOR_DEPTH
            THEN LoadResult(NULL24, 1, 1, "depth", 0)
          ELSE IF header_info.compression # 0
            THEN LoadResult(NULL24, 1, 1, "compression", 0)
          ELSE IF width <= 0 \/ height <= 0
            THEN LoadResult(NULL24, 1, 1, "dimensions", 0)
          ELSE IF img.null
            THEN LoadResult(NULL24, 1, 1, "allocation", 0)
          ELSE LoadResult(
                 bmp24_readPixelData(
                   [img EXCEPT !.header = header,
                               !.header_info = header_info,
                               !.width = width,
                               !.height = height,
                               !.colorDepth = header_info.bits],
                   file.bytes, env, 4),
                 1, 1, "none", 3)

\* what a save call leaves behind: the file, the image (bmp24_saveImage
\* rewrites its headers), the fopen and fclose calls made, what the call
\* printed last ("success": "Image saved successfully", "error": an error
\* message and nothing after it) and whether every byte was written
SaveResult(file, img, fopens, fcloses, reported, complete) ==
    [file |-> file, img |-> img, fopens |-> fopens, fcloses |-> fcloses,
     reported |-> reported, complete |-> complete]

\* a save that writes the header fields as the image holds them
SavedHeaders_keep(img) == img

\* the header fields bmp24_saveImage recomputes before writing
SavedHeaders(img) ==
    LET offset == BMP_HEADER_SIZE + BMP_INFO_SIZE
        imagesize == MulW(HeaderRowSize(img.width), abs(img.height))
    IN  [img EXCEPT
           !.header = [type      |-> BMP_TYPE,
                       size      |-> AddW(offset, imagesize),
                       reserved1 |-> 0,
                       reserved2 |-> 0,
                       offset    |-> offset],
           !.header_info = [size            |-> BMP_INFO_SIZE,
                            width           |-> img.width,
                            height          |-> img.height,
                            planes          |-> 1,
                            bits            |-> DEFAULT_COLOR_DEPTH,
                            compression     |-> 0,
                            imagesize       |-> imagesize,
                            xresolution     |-> 0,
                            yresolution     |-> 0,
                            ncolors         |-> 0,
                            importantcolors |-> 0]]

\* bmp24_saveImage(img, filename) with the file at filename being file.
\* env.wopen: fopen(filename, "wb") succeeds; it empties the file
bmp24_saveImage(img, file, env) ==
    IF img.null THEN SaveResult(file, img, 0, 0, "error", FALSE)
    ELSE IF ~env.wopen THEN SaveResult(file, img, 0, 0, "error", FALSE)
    ELSE
      LET img1 == SavedHeaders(img)
          w1 == file_rawWrite(0, HeaderBytes(img1.header), <<>>, env.cap)
          w2 == file_rawWrite(BMP_HEADER_SIZE, InfoBytes(img1.header_info),
                              w1.bytes, env.cap)
          w3 == bmp24_writePixelData(img1, w2.bytes, env, 1)
      IN  SaveResult(File(w3.bytes), img1, 1, 1, "success",
                     w1.ok /\ w2.ok /\ w3.ok)

----------------------------------------------------------------------------
(* bmp8.h, bmp8.c: the 8-bit codec *)

\* sizeof header in t_bmp8
Bmp8HeaderSize == 54

\* sizeof colorTable in t_bmp8
Bmp8TableSize == 1024

\* bmp8_loadImage(filename) with the file at filename being file.  The
\* mallocs of the call: 1 the structure, 2 the pixel buffer; env.zeroNull:
\* malloc(0) returns NULL on this build
bmp8_loadImage(file, env) ==
    IF ~file.exists THEN LoadResult(NULL8, 0, 0, "open", 0)
    ELSE IF env.oom = 1 THEN LoadResult(NULL8, 1, 1, "allocation", 0)
    ELSE
      LET header     == fread(file.bytes, 0, Bmp8HeaderSize)
          width      == Rd32(header, 18)
          height     == Rd32(header, 22)
          colorDepth == RdLE(header, 28, 2)
          dataSize0  == Rd32(header, 34)
          dataOffset == Rd32(header, 10)
          colorTable == fread(file.bytes, Bmp8HeaderSize, Bmp8TableSize)
          dataSize   == IF dataSize0 = 0 THEN MulW(width, height) ELSE dataSize0
          \* fseek's result is not looked at: after a failed seek the file
          \* position is still the end of the colour table
          pos        == IF fseekOk(dataOffset, env) THEN dataOffset
                        ELSE Bmp8HeaderSize + Bmp8TableSize
          data       == fread(file.bytes, pos, dataSize)
      IN  IF Len(header) # Bmp8HeaderSize
            THEN LoadResult(NULL8, 1, 1, "header", 0)
          ELSE IF header[1] # 66 \/ header[2] # 77
            THEN LoadResult(NULL8, 1, 1, "signature", 0)
          ELSE IF colorDepth # 8
            THEN LoadResult(NULL8, 1, 1, "depth", 0)
          ELSE IF Len(colorTable) # Bmp8TableSize
            THEN LoadResult(NULL8, 1, 1, "palette", 0)
          ELSE IF env.oom = 2 \/ (dataSize = 0 /\ env.zeroNull)
            THEN LoadResult(NULL8, 1, 1, "allocation", 0)
          ELSE IF dataSize < 0 \/ Len(data) # dataSize
            THEN LoadResult(NULL8, 1, 1, "pixels", 0)
          ELSE LoadResult([null       |-> FALSE,
                           header     |-> header,
                           colorTable |-> colorTable,
                           data       |-> data,
                           width      |-> width,
                           height     |-> height,
                           colorDepth |-> colorDepth,
                           dataSize   |-> dataSize],
                          1, 1, "none", 2)

\* bmp8_saveImage(filename, img) with the file at filename being file: three
\* fwrite calls one after the other, each checked
bmp8_saveImage(img, file, env) ==
    IF img.null THEN SaveResult(file, img, 0, 0, "error", FALSE)
    ELSE IF ~env.wopen THEN SaveResult(file, img, 0, 0, "error", FALSE)
    ELSE
      LET w1 == fwrite(<<>>, 0, img.header, env.cap)
          w2 == fwrite(w1.bytes, Bmp8HeaderSize, img.colorTable, env.cap)
          w3 == fwrite(w2.bytes, Bmp8HeaderSize + Bmp8TableSize, img.data,
                       env.cap)
      IN  IF w1.n # Bmp8HeaderSize
            THEN SaveResult(File(w1.bytes), img, 1, 1, "error", FALSE)
          ELSE IF w2.n # Bmp8TableSize
            THEN SaveResult(File(w2.bytes), img, 1, 1, "error", FALSE)
          ELSE IF w3.n # img.dataSize
            THEN SaveResult(File(w3.bytes), img, 1, 1, "error", FALSE)
          ELSE SaveResult(File(w3.bytes), img, 1, 1, "success", TRUE)

----------------------------------------------------------------------------
(* bmp8.c, bmp24.c: point operations *)

\* what a build makes of a signed int addition that overflows: the sum
\* wrapped to 32 bits, or a code path chosen as if the sum were exact
Overflows == {"wraps", "exact"}

\* (int)b + value for a byte b, as the comparisons after it see it.  When
\* the mathematical sum exceeds INT_MAX the addition overflows; under
\* "exact" INT_MAX stands for that sum, which compares alike with 0 and 255
IntSum(b, value, ub) ==
    IF value > INT_MAX - b
      THEN IF ub = "wraps" THEN AddW(b, value) ELSE INT_MAX
      ELSE b + value

\* static uint8_t clamp_u8(int value)
clamp_u8(value) ==
    IF value < 0 THEN 0 ELSE IF value > 255 THEN 255 ELSE U8(value)

\* a negative that leaves the byte 255 alone
bmp8_negative_sticky(img) ==
    IF img.null THEN img
    ELSE [img EXCEPT !.data =
            [i \in 1..img.dataSize |->
               IF img.data[i] = 255 THEN 255 ELSE U8(255 - img.data[i])]]

\* bmp8_negative(img): the image afterwards
bmp8_negative(img) ==
    IF img.null THEN img
    ELSE [img EXCEPT !.data =
            [i \in 1..img.dataSize |-> U8(255 - img.data[i])]]

\* bmp8_brightness(img, value): the image afterwards
bmp8_brightness(img, value, ub) ==
    IF img.null THEN img
    ELSE [img EXCEPT !.data =
            [i \in 1..img.dataSize |->
               LET newValue == IntSum(img.data[i], value, ub)
               IN  IF newValue < 0 THEN 0
                   ELSE IF newValue > 255 THEN 255
                   ELSE U8(newValue)]]

\* a threshold that casts to unsigned char without clamping first
bmp8_threshold_cast(img, threshold) ==
    IF img.null THEN img
    ELSE LET threshold_val == U8(threshold)
         IN  [img EXCEPT !.data =
                [i \in 1..img.dataSize |->
                   IF img.data[i] >= threshold_val THEN 255 ELSE 0]]

\* bmp8_threshold(img, threshold): the image afterwards
bmp8_threshold(img, threshold) ==
    IF img.null THEN img
    ELSE LET clamped == IF threshold < 0 THEN 0
                        ELSE IF threshold > 255 THEN 255 ELSE threshold
             threshold_val == U8(clamped)
         IN  [img EXCEPT !.data =
                [i \in 1..img.dataSize |->
                   IF img.data[i] >= threshold_val THEN 255 ELSE 0]]

\* bmp24_negative(img): the image afterwards
bmp24_negative(img) ==
    IF img.null \/ img.data = <<>> THEN img
    ELSE [img EXCEPT !.data =
            [y \in 1..img.height |->
               [x \in 1..img.width |->
                  LET p == img.data[y][x]
                  IN  t_pixel(U8(255 - p.blue), U8(255 - p.green),
                              U8(255 - p.red))]]]

\* float gray_f = 0.299f * red + 0.587f * green + 0.114f * blue, then
\* clamp_u8((int)(gray_f + 0.5f)): every operation in float
GrayOf(p) ==
    LET gray_f == FpAdd(FpAdd(FpMulInt(FpRatio(299, 1000, FloatBits), p.red,
                                       FloatBits),
                              FpMulInt(FpRatio(587, 1000, FloatBits), p.green,
                                       FloatBits),
                              FloatBits),
                        FpMulInt(FpRatio(114, 1000, FloatBits), p.blue,
                                 FloatBits),
                        FloatBits)
    IN  clamp_u8(FpTrunc(FpAdd(gray_f, FpRatio(1, 2, FloatBits), FloatBits)))

\* bmp24_grayscale(img): the image afterwards
bmp24_grayscale(img) ==
    IF img.null \/ img.data = <<>> THEN img
    ELSE [img EXCEPT !.data =
            [y \in 1..img.height |->
               [x \in 1..img.width |->
                  LET gray == GrayOf(img.data[y][x])
                  IN  t_pixel(gray, gray, gray)]]]

\* bmp24_brightness(img, value): the image afterwards
bmp24_brightness(img, value, ub) ==
    IF img.null \/ img.data = <<>> THEN img
    ELSE [img EXCEPT !.data =
            [y \in 1..img.height |->
               [x \in 1..img.width |->
                  LET p == img.data[y][x]
                  IN  t_pixel(clamp_u8(IntSum(p.blue, value, ub)),
                              clamp_u8(IntSum(p.green, value, ub)),
                              clamp_u8(IntSum(p.red, value, ub)))]]]

----------------------------------------------------------------------------
(* bmp8.c, bmp24.c: convolution filters *)

\* float **kernel: the callers store taps[i][j] * (1.0f / div) in
\* kernel[i][j]; null: the pointer is NULL
Kernel(taps, div) == [null |-> FALSE, taps |-> taps, div |-> div]

NullKernel == [null |-> TRUE, taps |-> <<>>, div |-> 1]

\* the kernels of bmp24_boxBlur, bmp24_gaussianBlur, bmp24_outline,
\* bmp24_emboss, bmp24_sharpen and of menu_apply_filter
BoxBlur == Kernel(<<<<1, 1, 1>>, <<1, 1, 1>>, <<1, 1, 1>>>>, 9)

GaussianBlur == Kernel(<<<<1, 2, 1>>, <<2, 4, 2>>, <<1, 2, 1>>>>, 16)

Outline == Kernel(<<<<-1, -1, -1>>, <<-1, 8, -1>>, <<-1, -1, -1>>>>, 1)

Emboss == Kernel(<<<<-2, -1, 0>>, <<-1, 1, 1>>, <<0, 1, 2>>>>, 1)

Sharpen == Kernel(<<<<0, -1, 0>>, <<-1, 5, -1>>, <<0, -1, 0>>>>, 1)

\* a 5 x 5 kernel a caller of the library may pass: every tap 1/32
Mean5 == Kernel([i \in 1..5 |-> [j \in 1..5 |-> 1]], 32)

\* taps n / div with div a power of two: every product with a byte and every
\* partial sum is a multiple of 1 / div far below 2^24 / div, so the float
\* operations on them are exact
Dyadic(div) == div \in {1, 2, 4, 8, 16, 32, 64}

\* (int) of the quotient a / b, b > 0: truncation towards zero
TruncDiv(a, b) == IF a >= 0 THEN a \div b ELSE -((-a) \div b)

RECURSIVE SumExact(_)
\* the sum of p * n over the samples <<p, n>>
SumExact(samples) ==
    IF samples = <<>> THEN 0
    ELSE samples[1][1] * samples[1][2] + SumExact(Tail(samples))

RECURSIVE SumFloat(_, _, _)
\* sum += (float)p * k over the samples in turn, k = n * (1.0f / div) with
\* n >= 0, every operation in float
SumFloat(samples, sum, div) ==
    IF samples = <<>> THEN sum
    ELSE LET k == FpMulInt(FpRatio(1, div, FloatBits), samples[1][2], FloatBits)
         IN  SumFloat(Tail(samples),
                      FpAdd(sum, FpMulInt(k, samples[1][1], FloatBits),
                            FloatBits),
                      div)

\* (int)sum: the 0.5f is left out
Rounded_trunc(samples, div) ==
    IF Dyadic(div) THEN TruncDiv(SumExact(samples), div)
    ELSE FpTrunc(SumFloat(samples, Fp(<<>>, 0), div))

\* (int)(sum + 0.5f) for the sum over the samples
Rounded(samples, div) ==
    IF Dyadic(div) THEN TruncDiv(2 * SumExact(samples) + div, 2 * div)
    ELSE FpTrunc(FpAdd(SumFloat(samples, Fp(<<>>, 0), div),
                       FpRatio(1, 2, FloatBits), FloatBits))

\* a convolution that reads the neighbours from the image being written
bmp24_convolution_inplace(img, x, y, kernel, kernelSize, original_data) ==
    LET kernelRadius == kernelSize \div 2
        Clamp(v, n) == IF v < 0 THEN 0 ELSE IF v >= n THEN n - 1 ELSE v
        samples(ch) ==
          [t \in 1..(kernelSize * kernelSize) |->
             LET ky == (t - 1) \div kernelSize - kernelRadius
                 kx == ((t - 1) % kernelSize) - kernelRadius
                 neighbor_pixel == img.data[Clamp(y + ky, img.height) + 1]
                                           [Clamp(x + kx, img.width) + 1]
             IN  <<neighbor_pixel[ch],
                   kernel.taps[ky + kernelRadius + 1][kx + kernelRadius + 1]>>]
    IN  t_pixel(clamp_u8(Rounded(samples("blue"), kernel.div)),
                clamp_u8(Rounded(samples("green"), kernel.div)),
                clamp_u8(Rounded(samples("red"), kernel.div)))

\* bmp24_convolution(img, x, y, kernel, kernelSize, original_data): the new
\* pixel at column x, row y (from 0)
bmp24_convolution(img, x, y, kernel, kernelSize, original_data) ==
    LET kernelRadius == kernelSize \div 2
        Clamp(v, n) == IF v < 0 THEN 0 ELSE IF v >= n THEN n - 1 ELSE v
        samples(ch) ==
          [t \in 1..(kernelSize * kernelSize) |->
             LET ky == (t - 1) \div kernelSize - kernelRadius
                 kx == ((t - 1) % kernelSize) - kernelRadius
                 neighbor_pixel == original_data[Clamp(y + ky, img.height) + 1]
                                                [Clamp(x + kx, img.width) + 1]
             IN  <<neighbor_pixel[ch],
                   kernel.taps[ky + kernelRadius + 1][kx + kernelRadius + 1]>>]
    IN  IF original_data = <<>> THEN t_pixel(0, 0, 0)
        ELSE t_pixel(clamp_u8(Rounded(samples("blue"), kernel.div)),
                     clamp_u8(Rounded(samples("green"), kernel.div)),
                     clamp_u8(Rounded(samples("red"), kernel.div)))

RECURSIVE Filter24(_, _, _, _, _)
\* the loops of bmp24_applyFilter over y and x, at pixel number n
Filter24(img, kernel, kernelSize, original_data, n) ==
    IF n >= img.width * img.height THEN img
    ELSE LET y == n \div img.width
             x == n % img.width
         IN  Filter24([img EXCEPT !.data[y + 1][x + 1] =
                         bmp24_convolution(img, x, y, kernel, kernelSize,
                                           original_data)],
                      kernel, kernelSize, original_data, n + 1)

\* a filter that takes kernels of even size
bmp24_applyFilter_even(img, kernel, kernelSize, env) ==
    IF img.null \/ img.data = <<>> THEN img
    ELSE IF kernel.null \/ kernelSize <= 0 THEN img
    ELSE IF bmp24_allocateDataPixels(img.width, img.height, env, 1) = <<>>
      THEN img
    ELSE Filter24(img, kernel, kernelSize, img.data, 0)

\* what bmp24_applyFilter(img, kernel, kernelSize) prints on stderr
bmp24_applyFilter_stderr(img, kernel, kernelSize, env) ==
    IF img.null \/ img.data = <<>> THEN "image"
    ELSE IF kernel.null \/ kernelSize <= 0 \/ kernelSize % 2 = 0 THEN "kernel"
    ELSE IF bmp24_allocateDataPixels(img.width, img.height, env, 1) = <<>>
      THEN "memory"
    ELSE "none"

\* bmp24_applyFilter(img, kernel, kernelSize): the image afterwards
bmp24_applyFilter(img, kernel, kernelSize, env) ==
    IF img.null \/ img.data = <<>> THEN img
    ELSE IF kernel.null \/ kernelSize <= 0 \/ kernelSize % 2 = 0 THEN img
    ELSE IF bmp24_allocateDataPixels(img.width, img.height, env, 1) = <<>>
      THEN img
    ELSE Filter24(img, kernel, kernelSize, img.data, 0)

RECURSIVE Filter8(_, _, _, _, _, _)
\* the loops of bmp8_applyFilter at row y, column x.  width, height and the
\* loop counters are unsigned: height - kernelRadius wraps to a number above
\* every index when height < kernelRadius, and so for the width.  fault: an
\* index past the dataSize bytes of the buffers was used
Filter8(img, kernel, kernelSize, originalData, y, x) ==
    LET kernelRadius == kernelSize \div 2
        InY(v) == img.height < kernelRadius \/ v < img.height - kernelRadius
        InX(v) == img.width < kernelRadius \/ v < img.width - kernelRadius
        samples ==
          [t \in 1..(kernelSize * kernelSize) |->
             LET ky == (t - 1) \div kernelSize - kernelRadius
                 kx == ((t - 1) % kernelSize) - kernelRadius
             IN  <<originalData[(y + ky) * img.width + (x + kx) + 1],
                   kernel.taps[ky + kernelRadius + 1][kx + kernelRadius + 1]>>]
        pixelValue == Rounded(samples, kernel.div)
    IN  IF ~InY(y) \/ ~InX(kernelRadius) THEN [img |-> img, fault |-> FALSE]
        ELSE IF ~InX(x)
          THEN Filter8(img, kernel, kernelSize, originalData, y + 1, kernelRadius)
        ELSE IF (y + kernelRadius) * img.width + (x + kernelRadius) >= img.dataSize
          THEN [img |-> img, fault |-> TRUE]
        ELSE Filter8([img EXCEPT !.data[y * img.width + x + 1] =
                        IF pixelValue < 0 THEN 0
                        ELSE IF pixelValue > 255 THEN 255 ELSE U8(pixelValue)],
                     kernel, kernelSize, originalData, y, x + 1)

\* what bmp8_applyFilter(img, kernel, kernelSize) prints on stderr
bmp8_applyFilter_stderr(img, kernel, kernelSize, env) ==
    IF img.null THEN "image"
    ELSE IF kernel.null \/ kernelSize <= 0 \/ kernelSize % 2 = 0 THEN "kernel"
    ELSE IF env.oom = 1 THEN "memory"
    ELSE "none"

\* bmp8_applyFilter(img, kernel, kernelSize): the image afterwards
bmp8_applyFilter(img, kernel, kernelSize, env) ==
    IF img.null THEN [img |-> img, fault |-> FALSE]
    ELSE IF kernel.null \/ kernelSize <= 0 \/ kernelSize % 2 = 0
      THEN [img |-> img, fault |-> FALSE]
    ELSE IF env.oom = 1 THEN [img |-> img, fault |-> FALSE]
    ELSE Filter8(img, kernel, kernelSize, img.data, kernelSize \div 2,
                 kernelSize \div 2)

----------------------------------------------------------------------------
(* histogram.c: histogram and equalization table *)

RECURSIVE SumF(_)
\* the sum of the values of a function with a finite domain
SumF(f) ==
    IF DOMAIN f = {} THEN 0
    ELSE LET a == CHOOSE a \in DOMAIN f : TRUE
         IN  f[a] + SumF([b \in DOMAIN f \ {a} |-> f[b]])

RECURSIVE CountOf(_, _)
\* how many bytes of data are v
CountOf(data, v) ==
    IF data = <<>> THEN 0
    ELSE (IF data[1] = v THEN 1 ELSE 0) + CountOf(Tail(data), v)

\* bmp8_computeHistogram(img): the 256 counters, or <<>> for NULL
bmp8_computeHistogram(img, env) ==
    IF img.null THEN <<>>
    ELSE IF env.oom = 1 THEN <<>>
    ELSE [v \in 0..255 |-> CountOf(SubSeq(img.data, 1, img.dataSize), v)]

\* what the build makes of (unsigned int)v for a double v >= 2^32, which the
\* language leaves undefined: the low 32 bits, or the largest unsigned int
Conversions == {"low", "max"}

\* (unsigned int)round(v) followed by the clamp to 255, for a double v >= 0
ClampedRound(v, conv) ==
    LET r   == FpRoundHalfUp(v)
        low == Norm(<<r[1], r[2], r[3] % 4>>)
    IN  IF BitLen(r) <= 8 THEN ToInt(r)
        ELSE IF BitLen(r) <= 32 THEN 255
        ELSE IF conv = "max" THEN 255
        ELSE IF BitLen(low) <= 8 THEN ToInt(low)
        ELSE 255

\* an equalization that maps every level but the lowest one up by one
bmp8_computeEqualizedHistogram_up(hist, numPixels, env) ==
    IF hist = <<>> \/ numPixels = 0 THEN <<>>
    ELSE [i \in 0..255 |-> Min(255, i + 1)]

\* bmp8_computeEqualizedHistogram(hist, numPixels): the table, or <<>> for
\* NULL.  The counters and numPixels are below 2^30 here, the difference
\* numPixels - cdfmin is at most 2^15
bmp8_computeEqualizedHistogram(hist, numPixels, env) ==
    LET \* cdf[i] = cdf[i - 1] + hist[i]: the counters up to i added up
        cdf == [i \in 0..255 |->
                  SumF([v \in {v \in 0..i : hist[v] # 0} |-> hist[v]])]
        first == CHOOSE i \in 0..255 : cdf[i] > 0 /\ \A j \in 0..(i - 1) : cdf[j] = 0
        cdfmin == IF \E i \in 0..255 : cdf[i] > 0 THEN cdf[first] ELSE 0
        denominator == numPixels - cdfmin
        scale_factor == FpRatio(255, denominator, DoubleBits)
        \* the entry for a value c of the cdf; equal values get equal entries
        entry == [c \in {cdf[i] : i \in 0..255} |->
                    LET numerator == IF c >= cdfmin THEN c - cdfmin ELSE 0
                    IN  ClampedRound(FpMulInt(scale_factor, numerator,
                                              DoubleBits),
                                     env.conv)]
    IN  IF hist = <<>> \/ numPixels = 0 THEN <<>>
        ELSE IF env.oom = 1 \/ env.oom = 2 THEN <<>>
        ELSE IF denominator <= 0 THEN [i \in 0..255 |-> i]
        ELSE [i \in 0..255 |-> entry[cdf[i]]]

\* bmp8_equalize(img): the image afterwards.  The allocations are the one
\* of the histogram and the two of the table
bmp8_equalize(img, env) ==
    LET hist == bmp8_computeHistogram(img, env)
        numPixels == MulW(img.width, img.height)
        hist_eq == bmp8_computeEqualizedHistogram(
                     hist, numPixels,
                     [env EXCEPT !.oom = IF @ >= 2 THEN @ - 1 ELSE 0])
    IN  IF img.null THEN img
        ELSE IF hist = <<>> \/ hist_eq = <<>> THEN img
        ELSE [img EXCEPT !.data =
                [i \in 1..Len(img.data) |->
                   IF i <= img.dataSize THEN U8(hist_eq[img.data[i]])
                   ELSE img.data[i]]]

\* static uint8_t clamp_u8_f(float value)
clamp_u8_f(value) ==
    IF value.neg THEN 0
    ELSE IF FpAbove(value, FpInt(255)) THEN 255
    ELSE U8(ToInt(FpRoundHalfUp(value)))

\* the conversion of a pixel from RGB to YUV (Eq. 3.3), every product and
\* every sum rounded to float in the order of the expression
RgbToYuv(p) ==
    LET R == FpOfInt(p.red)
        G == FpOfInt(p.green)
        B == FpOfInt(p.blue)
        f(a, digits) == FpDec(a, digits, FloatBits)
        Mul(a, b) == FpMul(a, b, FloatBits)
        Add(a, b) == FpSum(a, b, FloatBits)
        Sub(a, b) == FpDiff(a, b, FloatBits)
    IN  [y |-> Add(Add(Mul(f(299, 3), R), Mul(f(587, 3), G)),
                   Mul(f(114, 3), B)),
         u |-> Add(Sub(Mul(FpNeg(f(14713, 5)), R), Mul(f(28886, 5), G)),
                   Mul(f(436, 3), B)),
         v |-> Sub(Sub(Mul(f(615, 3), R), Mul(f(51499, 5), G)),
                   Mul(f(10001, 5), B))]

\* the conversion back (Eq. 3.4) with the equalized Y_eq, clamped
YuvToRgb(Y_eq, U, V) ==
    LET f(a, digits) == FpDec(a, digits, FloatBits)
        Mul(a, b) == FpMul(a, b, FloatBits)
        Add(a, b) == FpSum(a, b, FloatBits)
        Sub(a, b) == FpDiff(a, b, FloatBits)
        R_f == Add(Y_eq, Mul(f(113983, 5), V))
        G_f == Sub(Sub(Y_eq, Mul(f(39465, 5), U)), Mul(f(58060, 5), V))
        B_f == Add(Y_eq, Mul(f(203211, 5), U))
    IN  t_pixel(clamp_u8_f(B_f), clamp_u8_f(G_f), clamp_u8_f(R_f))

RECURSIVE Tally(_, _)
\* hist_y[y_int_data[i]]++ for every i in turn
Tally(hist, data) ==
    IF data = <<>> THEN hist
    ELSE Tally([hist EXCEPT ![data[1]] = @ + 1], Tail(data))

\* an equalization that leaves the pixels as they are
bmp24_equalize_skip(img, env) == img

\* bmp24_equalize(img): the image afterwards.  The allocations are the two of
\* the YUV and the Y buffers, the one of the histogram and the two of the
\* table
bmp24_equalize(img, env) ==
    LET width == img.width
        height == img.height
        numPixels == MulW(width, height)
        yuv_data == [index \in 0..(numPixels - 1) |->
                       RgbToYuv(img.data[index \div width + 1]
                                        [(index % width) + 1])]
        y_int_data == [index \in 0..(numPixels - 1) |->
                         clamp_u8_f(yuv_data[index].y)]
        hist_y == Tally([v \in 0..255 |-> 0],
                        [i \in 1..numPixels |-> y_int_data[i - 1]])
        hist_y_eq == bmp8_computeEqualizedHistogram(
                       hist_y, numPixels,
                       [env EXCEPT !.oom = IF @ >= 4 THEN @ - 3 ELSE 0])
    IN  IF img.null \/ img.data = <<>> THEN img
        ELSE IF env.oom \in {1, 2, 3} THEN img
        ELSE IF hist_y_eq = <<>> THEN img
        ELSE [img EXCEPT !.data =
                [r \in 1..height |->
                   [c \in 1..width |->
                      LET index == (r - 1) * width + (c - 1)
                      IN  YuvToRgb(FpOfInt(hist_y_eq[y_int_data[index]]),
                                   yuv_data[index].u, yuv_data[index].v)]]]

----------------------------------------------------------------------------
(* The files the runs start from *)

\* pixel bytes of the files: byte i of the pixel data of a file with seed s
PatByte(s, i) == (s + 37 * i) % 256

Seeds == {0, 200}

\* description of a 24-bit file: its two headers, the bytes between the
\* headers and the pixel data, the rows as stored (first stored row first),
\* the padding bytes of a row, bytes after the pixel data, and the number of
\* bytes of all that the file really holds (-1: all of them)
Desc24(w, h, s) ==
    LET rowsize == w * 3 + RowPadding(w * 3)
    IN  [header |-> [type |-> BMP_TYPE, size |-> 54 + rowsize * h,
                     reserved1 |-> 0, reserved2 |-> 0, offset |-> 54],
         info   |-> [size |-> 40, width |-> w, height |-> h, planes |-> 1,
                     bits |-> 24, compression |-> 0,
                     imagesize |-> rowsize * h, xresolution |-> 0,
                     yresolution |-> 0, ncolors |-> 0, importantcolors |-> 0],
         gap    |-> <<>>,
         rows   |-> [k \in 1..h |->
                       [i \in 1..(w * 3) |-> PatByte(s, (k - 1) * w * 3 + i - 1)]],
         pad    |-> Zeros(RowPadding(w * 3)),
         trailer |-> <<>>,
         keep   |-> -1]

\* the grey ramp: 256 entries blue, green, red, reserved
GreyRamp == [i \in 1..1024 |-> IF i % 4 = 0 THEN 0 ELSE (i - 1) \div 4]

\* description of an 8-bit file: the colour table lies between the headers
\* and the pixel data, rows hold one byte per pixel and are padded to a
\* multiple of 4 bytes as the BMP format has it
Desc8(w, h, s) ==
    LET rowsize == w + RowPadding(w)
    IN  [header |-> [type |-> BMP_TYPE, size |-> 1078 + rowsize * h,
                     reserved1 |-> 0, reserved2 |-> 0, offset |-> 1078],
         info   |-> [size |-> 40, width |-> w, height |-> h, planes |-> 1,
                     bits |-> 8, compression |-> 0,
                     imagesize |-> rowsize * h, xresolution |-> 0,
                     yresolution |-> 0, ncolors |-> 256, importantcolors |-> 0],
         gap    |-> GreyRamp,
         rows   |-> [k \in 1..h |->
                       [i \in 1..w |-> PatByte(s, (k - 1) * w + i - 1)]],
         pad    |-> Zeros(RowPadding(w)),
         trailer |-> <<>>,
         keep   |-> -1]

RECURSIVE StoredRows(_, _)
StoredRows(rows, pad) ==
    IF rows = <<>> THEN <<>> ELSE rows[1] \o pad \o StoredRows(Tail(rows), pad)

\* the file a description stands for
Encode(d) ==
    LET all == HeaderBytes(d.header) \o InfoBytes(d.info) \o d.gap
                 \o StoredRows(d.rows, d.pad) \o d.trailer
    IN  File(IF d.keep < 0 THEN all ELSE SubSeq(all, 1, Min(d.keep, Len(all))))

\* 24-bit files in the form bmp24_saveImage writes
Canon24 ==
    {Desc24(w, h, s) : w \in 1..MaxWidth, h \in 1..MaxHeight, s \in Seeds}

Base24 == Desc24(3, 2, 0)

\* well-formed 24-bit files in other forms
Legal24 ==
    {[Base24 EXCEPT !.info.xresolution = 2835, !.info.yresolution = 2835],
     [Base24 EXCEPT !.info.height = -2],
     [Base24 EXCEPT !.header.offset = 58, !.header.size = @ + 4,
                    !.gap = <<9, 9, 9, 9>>],
     [Base24 EXCEPT !.info.imagesize = 0],
     [Base24 EXCEPT !.pad = <<255, 255, 255>>],
     [Base24 EXCEPT !.info.ncolors = 16],
     [Base24 EXCEPT !.header.reserved1 = 7]}

\* malformed and truncated 24-bit files
Broken24 ==
    {[Base24 EXCEPT !.trailer = <<1, 2>>],
     [Base24 EXCEPT !.keep = 54 + 12],
     [Base24 EXCEPT !.keep = 54 + 12 + 5],
     [Base24 EXCEPT !.keep = 54],
     [Base24 EXCEPT !.keep = 20],
     [Base24 EXCEPT !.keep = 5],
     [Base24 EXCEPT !.keep = 1],
     [Base24 EXCEPT !.keep = 0],
     [Base24 EXCEPT !.header.type = 16706],
     [Base24 EXCEPT !.header.type = 16706, !.keep = 2],
     [Base24 EXCEPT !.header.type = 19778 + 256, !.keep = 30],
     [Base24 EXCEPT !.info.bits = 8],
     [Base24 EXCEPT !.info.bits = 32],
     [Base24 EXCEPT !.info.compression = 1],
     [Base24 EXCEPT !.info.width = 0],
     [Base24 EXCEPT !.info.width = -3],
     [Base24 EXCEPT !.info.height = 0],
     [Base24 EXCEPT !.info.height = INT_MIN],
     [Base24 EXCEPT !.info.size = 124],
     [Base24 EXCEPT !.header.offset = INT_MIN]}

Files24 == {Encode(d) : d \in Canon24 \cup Legal24 \cup Broken24}

\* 8-bit files whose header records the size of the pixel data
Canon8 == {Desc8(w, h, 0) : w \in 1..MaxWidth, h \in 1..MaxHeight}

\* rows of 3 pixels and a padding byte
Base8 == Desc8(3, 2, 200)

\* rows of 4 pixels, no padding
Wide8 == Desc8(4, 2, 200)

\* well-formed 8-bit files in other forms
Legal8 ==
    {[Wide8 EXCEPT !.info.imagesize = 0],
     [Base8 EXCEPT !.info.imagesize = 0],
     [Wide8 EXCEPT !.header.offset = 1082, !.header.size = @ + 4,
                   !.gap = GreyRamp \o <<9, 9, 9, 9>>],
     [Wide8 EXCEPT !.gap = [i \in 1..1024 |-> (7 * i) % 256]]}

\* malformed and truncated 8-bit files
Broken8 ==
    {[Wide8 EXCEPT !.trailer = <<1, 2>>],
     [Wide8 EXCEPT !.keep = 1078 + 4],
     [Wide8 EXCEPT !.keep = 1078],
     [Wide8 EXCEPT !.keep = 500],
     [Wide8 EXCEPT !.keep = 30],
     [Wide8 EXCEPT !.header.type = 16706],
     [Wide8 EXCEPT !.info.bits = 4],
     [Wide8 EXCEPT !.info.width = 0, !.info.imagesize = 0],
     [Wide8 EXCEPT !.info.imagesize = -1],
     [Wide8 EXCEPT !.header.offset = INT_MIN]}

Files8 == {Encode(d) : d \in Canon8 \cup Legal8 \cup Broken8}

----------------------------------------------------------------------------
(* The environment of a call *)

\* what the stack holds where bmp24_loadImage puts its header structures:
\* zero bytes, or the headers a previous call of the function left there
StaleStacks ==
    {Zeros(54),
     HeaderBytes(Desc24(1, 1, 0).header) \o InfoBytes(Desc24(1, 1, 0).info)}

\* an environment without faults: 64-bit long, room on the device, every
\* malloc and fopen succeeds; fresh heap memory reads 205
Env0 == [stale |-> Zeros(54), garb |-> 205, oom |-> 0, longBits |-> 64,
         cap |-> INT_MAX, wopen |-> TRUE, zeroNull |-> FALSE, conv |-> "low"]

\* the environments of the calls: a faulty one differs from Env0 in one
\* respect, one that the call looks at
LoadEnvs24 ==
    {[Env0 EXCEPT !.stale = st] : st \in StaleStacks}
      \cup {[Env0 EXCEPT !.oom = k] : k \in 1..4}
      \cup {[Env0 EXCEPT !.longBits = 32]}

SaveEnvs24 ==
    {Env0} \cup {[Env0 EXCEPT !.cap = c] : c \in {10, 30, 54 + 12 + 5}}
      \cup {[Env0 EXCEPT !.oom = 1], [Env0 EXCEPT !.wopen = FALSE]}

LoadEnvs8 ==
    {Env0} \cup {[Env0 EXCEPT !.oom = k] : k \in 1..2}
      \cup {[Env0 EXCEPT !.longBits = 32], [Env0 EXCEPT !.zeroNull = TRUE]}

SaveEnvs8 ==
    {Env0} \cup {[Env0 EXCEPT !.cap = c] : c \in {30, 500, 1078 + 5}}
      \cup {[Env0 EXCEPT !.wopen = FALSE]}

----------------------------------------------------------------------------
(* The calls of the codecs *)

NoCall == [op |-> "none"]

\* the record of a call: the file it found, whether a malloc failed in it,
\* and its outcome
Call(op, env, res) ==
    [op |-> op, disk |-> disk, oom |-> env.oom # 0, res |-> res]

\* the caller loads the file into its 24-bit handle (a handle it held before
\* was released first, as menu_open_image does)
Load24 ==
    /\ calls < MaxCalls
    /\ \E env \in LoadEnvs24 :
         LET r == bmp24_loadImage(disk, env)
         IN  /\ img24' = r.ret
             /\ last' = Call("load24", env, r)
    /\ last2' = last
    /\ calls' = calls + 1
    /\ UNCHANGED <<disk, img8>>
    /\ UNCHANGED menu

\* the caller saves its 24-bit handle to the file
Save24 ==
    /\ calls < MaxCalls
    /\ \E env \in SaveEnvs24 :
         LET r == bmp24_saveImage(img24, disk, env)
         IN  /\ disk' = r.file
             /\ img24' = r.img
             /\ last' = Call("save24", env, r)
    /\ last2' = last
    /\ calls' = calls + 1
    /\ UNCHANGED img8
    /\ UNCHANGED menu

\* the caller loads the file into its 8-bit handle
Load8 ==
    /\ calls < MaxCalls
    /\ \E env \in LoadEnvs8 :
         LET r == bmp8_loadImage(disk, env)
         IN  /\ img8' = r.ret
             /\ last' = Call("load8", env, r)
    /\ last2' = last
    /\ calls' = calls + 1
    /\ UNCHANGED <<disk, img24>>
    /\ UNCHANGED menu

\* the caller saves its 8-bit handle to the file
Save8 ==
    /\ calls < MaxCalls
    /\ \E env \in SaveEnvs8 :
         LET r == bmp8_saveImage(img8, disk, env)
         IN  /\ disk' = r.file
             /\ last' = Call("save8", env, r)
    /\ last2' = last
    /\ calls' = calls + 1
    /\ UNCHANGED <<img24, img8>>
    /\ UNCHANGED menu

Init ==
    /\ disk \in Files24 \cup Files8 \cup {NoFile}
    /\ img24 = NULL24
    /\ img8 = NULL8
    /\ last = NoCall
    /\ last2 = NoCall
    /\ calls = 0
    /\ NoMenu

Next == Load24 \/ Save24 \/ Load8 \/ Save8

\* the codecs: loads and saves of the file at one path
Spec == Init /\ [][Next]_vars

----------------------------------------------------------------------------
(* The point operations on a loaded image *)

\* files whose pixel bytes include the ends and the middle of the byte range
EdgeFiles24 ==
    {Encode(Base24),
     Encode([Desc24(2, 1, 0) EXCEPT !.rows = <<<<0, 1, 127, 128, 254, 255>>>>]),
     Encode([Desc24(2, 1, 0) EXCEPT !.rows = <<<<16, 40, 4, 81, 233, 5>>>>])}

EdgeFiles8 ==
    {Encode(Base8),
     Encode([Wide8 EXCEPT !.rows = <<<<0, 1, 127, 128>>, <<129, 254, 255, 100>>>>])}

\* brightness values the user may enter: any int
Deltas ==
    {INT_MIN, -256, -255, -100, -1, 0, 1, 100, 255, 256, INT_MAX - 255,
     INT_MAX - 254, INT_MAX}

\* threshold values the user may enter: any int
Thresholds == {INT_MIN, -1, 0, 1, 128, 255, 256, 300, 511, INT_MAX}

\* the record of a point operation: its argument and the pixels before it
Edit(op, arg, pre) == [op |-> op, arg |-> arg, pre |-> pre]

\* the pixel data of a handle, <<>> for NULL
DataOf(img) == IF img.null THEN <<>> ELSE img.data

Negative8 ==
    /\ calls < MaxEdits
    /\ img8' = bmp8_negative(img8)
    /\ last' = Edit("negative8", 0, DataOf(img8))
    /\ last2' = last
    /\ calls' = calls + 1
    /\ UNCHANGED <<disk, img24>>
    /\ UNCHANGED menu

Negative24 ==
    /\ calls < MaxEdits
    /\ img24' = bmp24_negative(img24)
    /\ last' = Edit("negative24", 0, DataOf(img24))
    /\ last2' = last
    /\ calls' = calls + 1
    /\ UNCHANGED <<disk, img8>>
    /\ UNCHANGED menu

Brightness8 ==
    /\ calls < MaxEdits
    /\ \E value \in Deltas, ub \in Overflows :
         /\ img8' = bmp8_brightness(img8, value, ub)
         /\ last' = Edit("brightness8", value, DataOf(img8))
    /\ last2' = last
    /\ calls' = calls + 1
    /\ UNCHANGED <<disk, img24>>
    /\ UNCHANGED menu

Brightness24 ==
    /\ calls < MaxEdits
    /\ \E value \in Deltas, ub \in Overflows :
         /\ img24' = bmp24_brightness(img24, value, ub)
         /\ last' = Edit("brightness24", value, DataOf(img24))
    /\ last2' = last
    /\ calls' = calls + 1
    /\ UNCHANGED <<disk, img8>>
    /\ UNCHANGED menu

Grayscale24 ==
    /\ calls < MaxEdits
    /\ img24' = bmp24_grayscale(img24)
    /\ last' = Edit("grayscale24", 0, DataOf(img24))
    /\ last2' = last
    /\ calls' = calls + 1
    /\ UNCHANGED <<disk, img8>>
    /\ UNCHANGED menu

Threshold8 ==
    /\ calls < MaxEdits
    /\ \E threshold \in Thresholds :
         /\ img8' = bmp8_threshold(img8, threshold)
         /\ last' = Edit("threshold8", threshold, DataOf(img8))
    /\ last2' = last
    /\ calls' = calls + 1
    /\ UNCHANGED <<disk, img24>>
    /\ UNCHANGED menu

\* one image is open, as after menu_open_image: the 24-bit handle or the
\* 8-bit handle holds what the loader returned, the other is NULL
InitPoint ==
    /\ disk \in EdgeFiles24 \cup EdgeFiles8
    /\ img24 = bmp24_loadImage(disk, Env0).ret
    /\ img8 = bmp8_loadImage(disk, Env0).ret
    /\ last = NoCall
    /\ last2 = NoCall
    /\ calls = 0
    /\ NoMenu

NextPoint ==
    \/ Negative8 \/ Negative24 \/ Brightness8 \/ Brightness24 \/ Threshold8
    \/ Grayscale24

\* the point operations applied to an open image
SpecPoint == InitPoint /\ [][NextPoint]_vars

----------------------------------------------------------------------------
(* The filters and bmp24_allocate as calls on the open image *)

MaxFilters == 2

FilterFiles24 ==
    {Encode(Desc24(1, 1, 200)), Encode(Desc24(2, 2, 0)),
     Encode(Desc24(3, 3, 200))}

\* rows of 4 pixels need no padding; the rows of the 1 x 5 file hold one
\* pixel and three padding bytes, which the loader keeps in the buffer
FilterFiles8 == {Encode(Desc8(4, 3, 200)), Encode(Desc8(1, 5, 0))}

\* what callers pass: a kernel with its size, a kernel with a size that is
\* not odd and positive, or NULL
KernelArgs ==
    {<<k, 3>> : k \in {BoxBlur, GaussianBlur, Outline, Emboss, Sharpen}}
      \cup {<<Mean5, 5>>, <<NullKernel, 3>>}
      \cup {<<BoxBlur, n>> : n \in {-1, 0, 2}}

\* the record of a filter call: its arguments, the image before it, whether
\* it left the buffers, and the diagnostic it printed
FilterCall(op, kernel, kernelSize, env, before, fault, err) ==
    [op |-> op, kernel |-> kernel, kernelSize |-> kernelSize,
     oom |-> env.oom, before |-> before, fault |-> fault, err |-> err]

\* the allocations that may fail are those of a call that gets to them
ApplyFilter8 ==
    /\ calls < MaxFilters
    /\ ~img8.null
    /\ \E arg \in KernelArgs, oom \in 0..1 :
         LET env == [Env0 EXCEPT !.oom = oom]
             res == bmp8_applyFilter(img8, arg[1], arg[2], env)
         IN  /\ oom = 0 \/ arg = <<BoxBlur, 3>>
             /\ img8' = res.img
             /\ last' = FilterCall("filter8", arg[1], arg[2], env, img8,
                                   res.fault,
                                   bmp8_applyFilter_stderr(img8, arg[1],
                                                           arg[2], env))
    /\ last2' = last
    /\ calls' = calls + 1
    /\ UNCHANGED <<disk, img24>>
    /\ UNCHANGED menu

ApplyFilter24 ==
    /\ calls < MaxFilters
    /\ ~img24.null
    /\ \E arg \in KernelArgs, oom \in 0..2 :
         LET env == [Env0 EXCEPT !.oom = oom]
         IN  /\ oom = 0 \/ arg = <<BoxBlur, 3>>
             /\ img24' = bmp24_applyFilter(img24, arg[1], arg[2], env)
             /\ last' = FilterCall("filter24", arg[1], arg[2], env, img24,
                                   FALSE,
                                   bmp24_applyFilter_stderr(img24, arg[1],
                                                            arg[2], env))
    /\ last2' = last
    /\ calls' = calls + 1
    /\ UNCHANGED <<disk, img8>>
    /\ UNCHANGED menu

\* bmp24_allocate(width, height) into the 24-bit handle; the memory malloc
\* hands out holds zeros or what an earlier owner left there
Allocate24 ==
    /\ calls < MaxFilters
    /\ img24.null
    /\ \E width \in 1..2, height \in 1..2, garb \in {0, 205}, oom \in 0..3 :
         LET env == [Env0 EXCEPT !.garb = garb, !.oom = oom]
         IN  /\ img24' = bmp24_allocate(width, height, env)
             /\ last' = [op |-> "allocate24", width |-> width,
                         height |-> height, oom |-> oom]
    /\ last2' = last
    /\ calls' = calls + 1
    /\ UNCHANGED <<disk, img8>>
    /\ UNCHANGED menu

InitFilter ==
    /\ disk \in FilterFiles24 \cup FilterFiles8
    /\ img24 = bmp24_loadImage(disk, Env0).ret
    /\ img8 = bmp8_loadImage(disk, Env0).ret
    /\ last = NoCall
    /\ last2 = NoCall
    /\ calls = 0
    /\ NoMenu

NextFilter == ApplyFilter8 \/ ApplyFilter24 \/ Allocate24

\* the filters applied to an open image
SpecFilter == InitFilter /\ [][NextFilter]_vars

----------------------------------------------------------------------------
(* The equalization table as a function of the histogram *)

\* the grey levels the histograms of the runs use and the counts they hold
Levels == {0, 100, 200}

Counts == {0, 1, 2, 25, 16843008}

\* the histogram with the given counts at the Levels and 0 elsewhere
HistOf(c) == [v \in 0..255 |-> IF v \in Levels THEN c[v] ELSE 0]

Hists == {HistOf(c) : c \in [Levels -> Counts]}

\* the number of pixels a histogram counts
Total(hist) == SumF([v \in {v \in 0..255 : hist[v] # 0} |-> hist[v]])

\* an image whose buffer holds the bytes 10, 20, 30, 40 and one with rows
\* of four pixels
LutFiles ==
    {Encode([Desc8(2, 2, 0) EXCEPT !.rows = <<<<10, 20>>, <<30, 40>>>>,
                                   !.pad = <<>>, !.info.imagesize = 4]),
     Encode([Wide8 EXCEPT !.rows = <<<<7, 7, 7, 9>>, <<9, 200, 7, 7>>>>])}

\* the arguments of a call of bmp8_computeEqualizedHistogram
LutInput(hist, numPixels) ==
    [op |-> "input", hist |-> hist, numPixels |-> numPixels]

\* bmp8_computeHistogram on the open image; numPixels is what bmp8_equalize
\* passes on with the histogram
ComputeHistogram ==
    /\ last = NoCall
    /\ ~img8.null
    /\ \E oom \in 0..1 :
         LET hist == bmp8_computeHistogram(img8, [Env0 EXCEPT !.oom = oom])
         IN  last' = IF hist = <<>> THEN [op |-> "histogram", hist |-> hist]
                     ELSE LutInput(hist, MulW(img8.width, img8.height))
    /\ last2' = [op |-> "histogram"]
    /\ calls' = calls + 1
    /\ UNCHANGED <<disk, img24, img8>>
    /\ UNCHANGED menu

ComputeEqualized ==
    /\ last.op = "input"
    /\ \E conv \in Conversions, oom \in 0..2 :
         LET env == [Env0 EXCEPT !.conv = conv, !.oom = oom]
         IN  /\ oom = 0 \/ conv = "low"
             /\ last' = [op |-> "equalized", hist |-> last.hist,
                         numPixels |-> last.numPixels, conv |-> conv,
                         hist_eq |-> bmp8_computeEqualizedHistogram(
                                       last.hist, last.numPixels, env)]
    /\ last2' = last2
    /\ calls' = calls + 1
    /\ UNCHANGED <<disk, img24, img8>>
    /\ UNCHANGED menu

\* either an image is open, or a caller of the library holds a histogram and
\* a pixel count: the count of the histogram, or one of its own
InitLut ==
    /\ last2 = NoCall
    /\ calls = 0
    /\ \/ /\ disk \in LutFiles
          /\ img24 = bmp24_loadImage(disk, Env0).ret
          /\ img8 = bmp8_loadImage(disk, Env0).ret
          /\ last = NoCall
       \/ /\ disk = NoFile
          /\ img24 = NULL24
          /\ img8 = NULL8
          /\ \E hist \in Hists :
               \E numPixels \in {0, 2, 51} \cup {Total(hist)} :
                 /\ numPixels <= 1000
                 /\ last = LutInput(hist, numPixels)
    /\ NoMenu

NextLut == ComputeHistogram \/ ComputeEqualized

\* the histogram and the equalization table
SpecLut == InitLut /\ [][NextLut]_vars

----------------------------------------------------------------------------
(* Histogram equalization of the open image *)

MaxEqualize == 2

\* a 24-bit file whose pixels are grey: blue, green and red hold the level
Grey24(levels) ==
    LET h == Len(levels)
        w == Len(levels[1])
    IN  [Desc24(w, h, 0) EXCEPT
           !.rows = [k \in 1..h |->
                       [i \in 1..(w * 3) |-> levels[k][(i - 1) \div 3 + 1]]]]

\* grey images of every size with levels that all differ, with levels that
\* repeat and with one level only
GreyFiles ==
    {Encode(Grey24([k \in 1..h |->
                      [x \in 1..w |-> PatByte(s, (k - 1) * w + x - 1)]])) :
       w \in 1..MaxWidth, h \in 1..MaxHeight, s \in {0, 100, 200}}
      \cup {Encode(Grey24(<<<<7, 7, 7, 9>>, <<9, 200, 7, 7>>>>)),
            Encode(Grey24(<<<<10, 20>>, <<30, 40>>>>)),
            Encode(Grey24(<<<<90, 90, 90>>>>))}

\* images in colour and 8-bit images
EqualizeFiles ==
    GreyFiles
      \cup {Encode(Desc24(2, 2, 0)), Encode(Desc24(4, 2, 200)),
            Encode(Desc24(3, 1, 100))}
      \cup {Encode(Desc8(4, 2, 0)), Encode(Desc8(4, 2, 200)),
            Encode([Desc8(4, 1, 0) EXCEPT !.rows = <<<<7, 9, 7, 200>>>>])}

\* the record of an equalization: the image before it and the allocation
\* that failed in it
EqualizeCall(op, env, before) ==
    [op |-> op, oom |-> env.oom, before |-> before]

\* bmp8_equalize on the open image; an allocation fails in the last call of
\* a run only
Equalize8 ==
    /\ calls < MaxEqualize
    /\ ~img8.null
    /\ \E oom \in 0..3 :
         LET env == [Env0 EXCEPT !.oom = oom]
         IN  /\ oom = 0 \/ calls = MaxEqualize - 1
             /\ img8' = bmp8_equalize(img8, env)
             /\ last' = EqualizeCall("equalize8", env, img8)
    /\ last2' = last
    /\ calls' = calls + 1
    /\ UNCHANGED <<disk, img24>>
    /\ UNCHANGED menu

\* bmp24_equalize on the open image
Equalize24 ==
    /\ calls < MaxEqualize
    /\ ~img24.null
    /\ \E oom \in 0..5 :
         LET env == [Env0 EXCEPT !.oom = oom]
         IN  /\ oom = 0 \/ calls = MaxEqualize - 1
             /\ img24' = bmp24_equalize(img24, env)
             /\ last' = EqualizeCall("equalize24", env, img24)
    /\ last2' = last
    /\ calls' = calls + 1
    /\ UNCHANGED <<disk, img8>>
    /\ UNCHANGED menu

\* the image was opened as menu_open_image does: as a 24-bit image, and as
\* an 8-bit image if that failed
InitEqualize ==
    /\ disk \in EqualizeFiles
    /\ img24 = bmp24_loadImage(disk, Env0).ret
    /\ img8 = IF img24.null THEN bmp8_loadImage(disk, Env0).ret ELSE NULL8
    /\ last = NoCall
    /\ last2 = NoCall
    /\ calls = 0
    /\ NoMenu

NextEqualize == Equalize8 \/ Equalize24

\* the equalizations
SpecEqualize == InitEqualize /\ [][NextEqualize]_vars

----------------------------------------------------------------------------
(* The sizes of a saved image as functions of its dimensions *)

\* the natural number a 32-bit pattern stands for in an unsigned variable,
\* as limbs
U32(v) ==
    IF v >= 0 THEN Limbs(v)
    ELSE Norm(AddC(Limbs(v - INT_MIN), <<0, 0, 2>>, 0))

\* widths and heights of images: small ones, 40000, the last width whose
\* row of 3-byte pixels fits an int and the next one, and the largest
SizeWidths == (1..8) \cup {40000, 715827882, 715827883, 1431655765, INT_MAX}

SizeHeights == (1..4) \cup {40000, 2 ^ 30 - 1}

\* an image of the given dimensions, its pixels left aside
Shape(width, height) ==
    [null |-> FALSE, width |-> width, height |-> height,
     colorDepth |-> DEFAULT_COLOR_DEPTH, data |-> <<>>,
     header |-> <<>>, header_info |-> <<>>]

\* what bmp24_saveImage records in the headers of an image of the given
\* dimensions and what bmp24_writePixelData then writes for it on a device
\* with room: height rows of row_size_padded bytes each
SaveSizes ==
    /\ last.op = "dims"
    /\ LET saved == SavedHeaders(Shape(last.width, last.height))
           row_size_padded == WriteRowSize(last.width)
       IN  last' = [op              |-> "sizes",
                    width           |-> last.width,
                    height          |-> last.height,
                    row_size        |-> HeaderRowSize(last.width),
                    imagesize       |-> saved.header_info.imagesize,
                    size            |-> saved.header.size,
                    offset          |-> saved.header.offset,
                    row_size_padded |-> row_size_padded,
                    written         |-> MulInt(U32(row_size_padded),
                                               last.height)]
    /\ calls' = calls + 1
    /\ UNCHANGED <<disk, img24, img8, last2>>
    /\ UNCHANGED menu

InitSize ==
    /\ disk = NoFile
    /\ img24 = NULL24
    /\ img8 = NULL8
    /\ last2 = NoCall
    /\ calls = 0
    /\ \E width \in SizeWidths, height \in SizeHeights :
         last = [op |-> "dims", width |-> width, height |-> height]
    /\ NoMenu

NextSize == SaveSizes

\* the sizes of a save
SpecSize == InitSize /\ [][NextSize]_vars

----------------------------------------------------------------------------
(* main.c: the menu *)

MaxMenu == 4

\* the paths of a run: three files to open, a path with no file, the paths
\* of the saves, and the name that starts with the bytes 'B', 'M' of an
\* image structure read as a string
Paths ==
    {"colour.bmp", "grey.bmp", "text.bmp", "none.bmp", "out.bmp",
     "colour_modified.bmp", "grey_modified.bmp", "BM"}

\* the files at the start of a run
MenuDisk ==
    [path \in Paths |->
       IF path = "colour.bmp" THEN Encode(Desc24(2, 1, 0))
       ELSE IF path = "grey.bmp" THEN Encode(Desc8(4, 1, 0))
       ELSE IF path = "text.bmp" THEN File(<<104, 105, 10>>)
       ELSE NoFile]

\* the default of menu_save_image: current_filename with _modified before
\* the extension
DefaultName(name) ==
    IF name = "colour.bmp" THEN "colour_modified.bmp"
    ELSE "grey_modified.bmp"

\* the globals of main.c with the heap behind the handles
Globals ==
    [current_img8 |-> img8, current_img24 |-> img24,
     image_loaded |-> image_loaded, current_filename |-> current_filename,
     heap |-> heap]

\* a free that releases nothing
Free_none(h, at) == h

\* bmp8_free(img), bmp24_free(img) on the image a handle points to
Free(h, at) == IF at = 0 THEN h ELSE [h EXCEPT !.frees[at] = @ + 1]

\* a free_current_image that frees the image and leaves the handle as it is
free_current_image_stale(g) ==
    [g EXCEPT !.heap = Free(@, IF g.image_loaded = 8 THEN @.at8 ELSE @.at24),
              !.image_loaded = 0, !.current_filename = ""]

\* free_current_image()
free_current_image(g) ==
    LET g1 == IF g.image_loaded = 8 /\ ~g.current_img8.null
                THEN [g EXCEPT !.heap = [Free(@, @.at8) EXCEPT !.at8 = 0],
                               !.current_img8 = NULL8]
              ELSE IF g.image_loaded = 24 /\ ~g.current_img24.null
                THEN [g EXCEPT !.heap = [Free(@, @.at24) EXCEPT !.at24 = 0],
                               !.current_img24 = NULL24]
              ELSE g
    IN  [g1 EXCEPT !.image_loaded = 0, !.current_filename = ""]

\* an Open that keeps the image it held when the new one cannot be loaded
menu_open_image_keep(g, d, filename, env) ==
    IF bmp24_loadImage(d[filename], env).ret.null
         /\ bmp8_loadImage(d[filename], env).ret.null
      THEN [g |-> g, calls |-> <<"load24", "load8">>]
    ELSE [g |-> [free_current_image(g) EXCEPT !.current_filename = filename],
          calls |-> <<"load24", "free">>]

\* menu_open_image() with the path the user entered, d the files: the
\* globals afterwards and the calls it made, in their order
menu_open_image(g, d, filename, env) ==
    LET g0 == free_current_image(g)
        r24 == bmp24_loadImage(d[filename], env)
        r8  == bmp8_loadImage(d[filename], env)
        n   == Len(g0.heap.frees) + 1
    IN  IF ~r24.ret.null
          THEN [g |-> [g0 EXCEPT !.current_img24 = r24.ret,
                                 !.image_loaded = 24,
                                 !.current_filename = filename,
                                 !.heap = [frees |-> Append(@.frees, 0),
                                           at8 |-> @.at8, at24 |-> n]],
                calls |-> <<"free", "load24">>]
        ELSE IF ~r8.ret.null
          THEN [g |-> [g0 EXCEPT !.current_img24 = NULL24,
                                 !.current_img8 = r8.ret,
                                 !.image_loaded = 8,
                                 !.current_filename = filename,
                                 !.heap = [frees |-> Append(@.frees, 0),
                                           at8 |-> n, at24 |-> @.at24]],
                calls |-> <<"free", "load24", "load8">>]
        ELSE [g |-> [g0 EXCEPT !.current_img24 = NULL24,
                               !.current_img8 = NULL8,
                               !.image_loaded = 0],
              calls |-> <<"free", "load24", "load8">>]

\* the record of a menu action: the globals before it, the path it was given,
\* the handle it passed to the library as the image (0: NULL, -1: a pointer
\* that is no image) and the library calls it made
MenuCall(op, path, used, made, outcome) ==
    [op |-> op, before |-> Globals, path |-> path, used |-> used,
     made |-> made, outcome |-> outcome]

\* the program has not ended
Running == last.op \notin {"quit", "crash"}

\* choice 1
MenuOpen ==
    /\ Running /\ calls < MaxMenu
    /\ \E filename \in {"colour.bmp", "grey.bmp", "text.bmp", "none.bmp"},
          oom \in 0..1 :
         LET r == menu_open_image(Globals, disk, filename,
                                  [Env0 EXCEPT !.oom = oom])
         IN  /\ img8' = r.g.current_img8
             /\ img24' = r.g.current_img24
             /\ image_loaded' = r.g.image_loaded
             /\ current_filename' = r.g.current_filename
             /\ heap' = r.g.heap
             /\ last' = MenuCall("open", filename, 0, r.calls, oom)
    /\ last2' = last
    /\ calls' = calls + 1
    /\ UNCHANGED disk

\* what bmp24_saveImage(filename, current_img24) comes to.  The prototype is
\* bmp24_saveImage(t_bmp24 *img, const char *filename): the function takes
\* the characters of the path for an image structure and the image structure
\* for the characters of a path.  It opens the file named by the bytes of the
\* image structure up to the first 0 ('B', 'M' and the low bytes of
\* header.size) and writes two headers there from the bytes of the path
\* buffer.  img->data, img->width and img->height are bytes of the stack
\* behind the path that nobody wrote:
\*   "headers": img->data reads as NULL or img->height as not positive: no
\*              row is written and the function reports success;
\*   "crash":   the rows are read through a wild pointer and the process
\*              dies with the file created and its buffered bytes lost
SwapOutcomes == {"headers", "crash"}

\* the files after bmp24_saveImage(filename, current_img24), the garbage
\* dimensions taken as env.garb and -env.garb
SwappedSave(d, outcome) ==
    LET wild == SavedHeaders(Shape(Env0.garb, -Env0.garb))
    IN  IF outcome = "headers"
          THEN [d EXCEPT !["BM"] = File(HeaderBytes(wild.header)
                                          \o InfoBytes(wild.header_info))]
        ELSE [d EXCEPT !["BM"] = File(<<>>)]

\* choice 2, entered the path the user typed ("": the default)
MenuSave ==
    /\ Running /\ calls < MaxMenu
    /\ \E entered \in {"out.bmp", ""} :
         LET filename == IF entered = "" THEN DefaultName(current_filename)
                         ELSE entered
         IN  \/ /\ image_loaded = 0
                /\ last' = MenuCall("save", "", 0, <<>>, "none")
                /\ disk' = disk
             \/ /\ image_loaded = 8
                /\ disk' = [disk EXCEPT ![filename] =
                              bmp8_saveImage(img8, disk[filename], Env0).file]
                /\ last' = MenuCall("save", filename, heap.at8,
                                    <<"save8">>, "saved")
             \/ /\ image_loaded = 24
                /\ \E outcome \in SwapOutcomes :
                     /\ disk' = SwappedSave(disk, outcome)
                     /\ last' = MenuCall(IF outcome = "crash" THEN "crash"
                                         ELSE "save",
                                         filename, -1, <<"save24">>, outcome)
    /\ last2' = last
    /\ calls' = calls + 1
    /\ UNCHANGED <<img24, img8, menu>>

\* choice 3: menu_apply_filter() with choice 1 (negative) or 4 (box blur)
MenuFilter ==
    /\ Running /\ calls < MaxMenu
    /\ \E choice \in {1, 4} :
         \/ /\ image_loaded = 0
            /\ last' = MenuCall("filter", "", 0, <<>>, choice)
            /\ UNCHANGED <<img8, img24>>
         \/ /\ image_loaded = 8
            /\ img8' = IF choice = 1 THEN bmp8_negative(img8)
                       ELSE bmp8_applyFilter(img8, BoxBlur, 3, Env0).img
            /\ last' = MenuCall("filter", "", heap.at8, <<"filter8">>, choice)
            /\ UNCHANGED img24
         \/ /\ image_loaded # 0 /\ image_loaded # 8
            /\ img24' = IF choice = 1 THEN bmp24_negative(img24)
                        ELSE bmp24_applyFilter(img24, BoxBlur, 3, Env0)
            /\ last' = MenuCall("filter", "", heap.at24, <<"filter24">>,
                                choice)
            /\ UNCHANGED img8
    /\ last2' = last
    /\ calls' = calls + 1
    /\ UNCHANGED <<disk, menu>>

\* choice 4: menu_display_info()
MenuInfo ==
    /\ Running /\ calls < MaxMenu
    /\ last' = MenuCall("info", "",
                        IF image_loaded = 8 THEN heap.at8
                        ELSE IF image_loaded = 24 THEN heap.at24 ELSE 0,
                        IF image_loaded = 8 THEN <<"info8">>
                        ELSE IF image_loaded = 24 THEN <<"info24">> ELSE <<>>,
                        "none")
    /\ last2' = last
    /\ calls' = calls + 1
    /\ UNCHANGED <<disk, img24, img8, menu>>

\* choice 5: free_current_image() and return from main
MenuQuit ==
    /\ Running
    /\ LET g == free_current_image(Globals)
       IN  /\ img8' = g.current_img8
           /\ img24' = g.current_img24
           /\ image_loaded' = g.image_loaded
           /\ current_filename' = g.current_filename
           /\ heap' = g.heap
    /\ last' = MenuCall("quit", "", 0, <<"free">>, "none")
    /\ last2' = last
    /\ calls' = calls + 1
    /\ UNCHANGED disk

InitMenu ==
    /\ disk = MenuDisk
    /\ img24 = NULL24
    /\ img8 = NULL8
    /\ last = NoCall
    /\ last2 = NoCall
    /\ calls = 0
    /\ NoMenu

NextMenu == MenuOpen \/ MenuSave \/ MenuFilter \/ MenuInfo \/ MenuQuit

\* the menu loop of main
SpecMenu == InitMenu /\ [][NextMenu]_vars

----------------------------------------------------------------------------
(* Properties of the codecs *)

\* the headers a file of at least 54 bytes starts with
FileHeader(file) == t_bmp_header(SubSeq(file.bytes, 1, BMP_HEADER_SIZE))

FileInfo(file) ==
    t_bmp_info(SubSeq(file.bytes, BMP_HEADER_SIZE + 1,
                      BMP_HEADER_SIZE + BMP_INFO_SIZE))

\* the bytes the BMP format gives a row of n bytes of pixels
Padded(n) == ((n + 3) \div 4) * 4

\* bound on the dimensions in the files the properties speak about: far
\* below the sizes at which 32-bit size computations wrap
SmallDim == 1000

\* a well-formed uncompressed 24-bit BMP file with a 40-byte info header:
\* its pixel data lies at the recorded offset and ends the file
WellFormed24(file) ==
    /\ file.exists
    /\ Len(file.bytes) >= BMP_HEADER_SIZE + BMP_INFO_SIZE
    /\ LET h == FileHeader(file)
           i == FileInfo(file)
       IN  /\ h.type = BMP_TYPE
           /\ i.size = BMP_INFO_SIZE /\ i.planes = 1
           /\ i.bits = 24 /\ i.compression = 0
           /\ i.width \in 1..SmallDim
           /\ i.height \in (-SmallDim)..SmallDim /\ i.height # 0
           /\ h.offset >= BMP_HEADER_SIZE + BMP_INFO_SIZE
           /\ h.offset <= Len(file.bytes)
           /\ Len(file.bytes) = h.offset + Padded(3 * i.width) * abs(i.height)
           /\ h.size = Len(file.bytes)
           /\ i.imagesize \in {0, Padded(3 * i.width) * abs(i.height)}

\* byte k (from 1) of stored row r (from 0) of a well-formed 24-bit file
StoredByte(file, r, k) ==
    file.bytes[FileHeader(file).offset + r * Padded(3 * FileInfo(file).width) + k]

\* a well-formed 24-bit file in the form bmp24_saveImage gives a file: pixel
\* data right after the headers, positive height, the sizes recorded, zero
\* in the resolution, reserved and colour-count fields and in the padding
Canonical24(file) ==
    /\ WellFormed24(file)
    /\ LET h == FileHeader(file)
           i == FileInfo(file)
       IN  /\ h.offset = BMP_HEADER_SIZE + BMP_INFO_SIZE
           /\ h.reserved1 = 0 /\ h.reserved2 = 0
           /\ i.height > 0
           /\ i.imagesize = Padded(3 * i.width) * i.height
           /\ i.xresolution = 0 /\ i.yresolution = 0
           /\ i.ncolors = 0 /\ i.importantcolors = 0
           /\ \A r \in 0..(i.height - 1) :
                \A k \in (3 * i.width + 1)..Padded(3 * i.width) :
                  StoredByte(file, r, k) = 0

\* the last two calls were a load of the file and then a save of the handle,
\* no malloc failed in them and every write of the save was complete
LoadedThenSaved24 ==
    /\ last2.op = "load24" /\ ~last2.oom
    /\ last.op = "save24" /\ ~last.oom
    /\ last.res.complete

\* C1 as the specification states it: bmp24_loadImage of a well-formed
\* uncompressed 24-bit file with a 40-byte info header and then
\* bmp24_saveImage of the image write a file byte for byte equal to it
C1_RoundTripWellFormed ==
    (LoadedThenSaved24 /\ WellFormed24(last2.disk)) => disk = last2.disk

\* C1, amended: bmp24_loadImage and then bmp24_saveImage write a file byte
\* for byte equal to the file loaded when that file is in the form
\* bmp24_saveImage writes (Canonical24)
C1_RoundTripCanonical ==
    (LoadedThenSaved24 /\ Canonical24(last2.disk)) => disk = last2.disk

\* a 3 x 2 file in that form, rows of 9 bytes and 3 padding bytes, was
\* loaded and saved and is the file again
C1_Witness ==
    /\ LoadedThenSaved24 /\ Canonical24(last2.disk)
    /\ FileInfo(last2.disk).width = 3 /\ FileInfo(last2.disk).height = 2
    /\ disk = last2.disk

\* a well-formed uncompressed 8-bit BMP file: a 256-entry colour table after
\* the headers, the pixel data at the recorded offset, ending the file
WellFormed8(file) ==
    /\ file.exists
    /\ Len(file.bytes) >= Bmp8HeaderSize + Bmp8TableSize
    /\ LET h == FileHeader(file)
           i == FileInfo(file)
       IN  /\ h.type = BMP_TYPE
           /\ i.size = BMP_INFO_SIZE /\ i.planes = 1
           /\ i.bits = 8 /\ i.compression = 0
           /\ i.width \in 1..SmallDim /\ i.height \in 1..SmallDim
           /\ h.offset >= Bmp8HeaderSize + Bmp8TableSize
           /\ h.offset <= Len(file.bytes)
           /\ Len(file.bytes) = h.offset + Padded(i.width) * i.height
           /\ h.size = Len(file.bytes)
           /\ i.imagesize \in {0, Padded(i.width) * i.height}

\* C2: bmp8_loadImage of a well-formed uncompressed 8-bit file and then
\* bmp8_saveImage of the image write a file byte for byte equal to it,
\* whatever pixel-data offset and dataSize its header records
C2_RoundTrip8 ==
    (/\ last2.op = "load8" /\ last2.res.error = "none"
     /\ last.op = "save8" /\ last.res.reported = "success"
     /\ WellFormed8(last2.disk))
      => disk = last2.disk

\* the last two calls were a save of the handle and then a load of the file
\* written, every write was complete and no malloc failed
SavedThenLoaded24 ==
    /\ last2.op = "save24" /\ ~last2.res.img.null
    /\ last2.res.complete /\ ~last2.oom
    /\ last.op = "load24" /\ ~last.oom

\* C3: bmp24_saveImage of an image and then bmp24_loadImage of the file
\* written give an image of the same width and height with the same pixel at
\* every row and column
C3_SaveThenLoad ==
    SavedThenLoaded24 =>
      /\ ~last.res.ret.null
      /\ last.res.ret.width = last2.res.img.width
      /\ last.res.ret.height = last2.res.img.height
      /\ last.res.ret.data = last2.res.img.data

\* the image of 3 x 2 pixels, rows of 12 bytes on disk, came back
C3_Witness ==
    /\ SavedThenLoaded24
    /\ last2.res.img.width = 3 /\ last2.res.img.height = 2
    /\ last.res.ret = last2.res.img

\* a file that holds two bytes or more and does not start with 'B', 'M'
BadSignature(file) ==
    /\ file.exists
    /\ Len(file.bytes) >= 2
    /\ (file.bytes[1] # 66 \/ file.bytes[2] # 77)

\* C4: a load of a file whose first two bytes are not 'B', 'M' returns no
\* handle, has closed the file it opened and leaves no block allocated, in
\* bmp24_loadImage and in bmp8_loadImage
C4_BadSignatureFails ==
    (last.op \in {"load24", "load8"} /\ BadSignature(last.disk)) =>
      /\ last.res.ret.null
      /\ last.res.fopens = 1 /\ last.res.fcloses = 1
      /\ last.res.live = 0
      /\ (Len(last.disk.bytes) >= Bmp8HeaderSize /\ ~last.oom
            => last.res.error = "signature")

\* both loaders were called on such a file and refused it
C4_Witness ==
    /\ last2.op = "load24" /\ last.op = "load8"
    /\ BadSignature(last.disk)
    /\ last2.res.error = "signature" /\ last.res.error = "signature"
    /\ img24 = NULL24 /\ img8 = NULL8

\* a 24-bit file with valid headers whose pixel data is shorter than height
\* padded rows, or lies at an offset past the file
ShortPixels24(file) ==
    /\ file.exists
    /\ Len(file.bytes) >= BMP_HEADER_SIZE + BMP_INFO_SIZE
    /\ LET h == FileHeader(file)
           i == FileInfo(file)
       IN  /\ h.type = BMP_TYPE /\ i.bits = 24 /\ i.compression = 0
           /\ i.width \in 1..SmallDim /\ abs(i.height) \in 1..SmallDim
           /\ \/ h.offset < 0
              \/ h.offset > Len(file.bytes)
              \/ Len(file.bytes) - h.offset < Padded(3 * i.width) * abs(i.height)

\* C5: bmp24_loadImage of a file whose pixel data is short returns no handle
C5_ShortPixelsFail ==
    (last.op = "load24" /\ ShortPixels24(last.disk)) => last.res.ret.null

\* C6: bmp24_loadImage of a file too short to hold the 54 bytes of the two
\* headers returns no handle
C6_ShortHeadersFail ==
    (/\ last.op = "load24" /\ last.disk.exists
     /\ Len(last.disk.bytes) < BMP_HEADER_SIZE + BMP_INFO_SIZE)
      => last.res.ret.null

\* C7: a bmp24_saveImage in which a write was short does not report success
C7_ShortWriteReported ==
    (last.op = "save24" /\ last.res.fopens = 1 /\ ~last.res.complete)
      => last.res.reported # "success"


\* C18: after a successful bmp24_loadImage of a well-formed file, no malloc
\* having failed, the buffer has abs(header height) rows and row 0 holds the
\* topmost row of the image: the last stored row of a file with positive
\* height (stored bottom-up), the first stored row of a file with negative
\* height (stored top-down)
C18_TopRowFirst ==
    (last.op = "load24" /\ ~last.oom /\ ~img24.null
       /\ WellFormed24(last.disk)) =>
      LET i   == FileInfo(last.disk)
          top == IF i.height > 0 THEN i.height - 1 ELSE 0
      IN  /\ img24.height = abs(i.height)
          /\ \A x \in 1..i.width :
               img24.data[1][x] = t_pixel(StoredByte(last.disk, top, 3 * x - 2),
                                          StoredByte(last.disk, top, 3 * x - 1),
                                          StoredByte(last.disk, top, 3 * x))

\* C20: the headers bmp24_saveImage has written into the file are derived
\* from the width and the height of the image, whatever its header fields
\* held before: width and height themselves, 24 bits, no compression, pixel
\* data at offset 54, imagesize the padded row size times the height, and
\* file size 54 + imagesize
C20_SavedHeaderFields ==
    (last.op = "save24" /\ last.res.reported = "success"
       /\ Len(disk.bytes) >= BMP_HEADER_SIZE + BMP_INFO_SIZE) =>
      LET h == FileHeader(disk)
          i == FileInfo(disk)
      IN  /\ i.width = img24.width
          /\ i.height = img24.height
          /\ i.bits = 24
          /\ i.compression = 0
          /\ h.offset = 54
          /\ i.imagesize = Padded(3 * img24.width) * img24.height
          /\ h.size = 54 + i.imagesize

\* an image loaded from a file with its pixel data at offset 58, which held
\* that offset and the file size 82 in its header, has been saved
C20_Witness ==
    /\ last2.op = "load24" /\ ~last2.res.ret.null
    /\ last2.res.ret.header.offset = 58
    /\ last2.res.ret.header.size = 82
    /\ last.op = "save24" /\ last.res.complete
    /\ FileHeader(disk).offset = 54
    /\ FileHeader(disk).size = 78

\* C21: the image a successful bmp8_loadImage returns has
\* dataSize = width * height and colorDepth = 8, whatever dataSize the file
\* header records
C21_DataSizeNormalized ==
    (last.op = "load8" /\ last.res.error = "none" /\ ~img8.null) =>
      /\ img8.dataSize = img8.width * img8.height
      /\ img8.colorDepth = 8

\* C22: on every return path of bmp8_loadImage, bmp8_saveImage,
\* bmp24_loadImage and bmp24_saveImage the file the call opened has been
\* closed exactly once: the call made as many fclose calls as fopen calls
\* that succeeded, at most one
C22_FileClosedOnce ==
    (last.op \in {"load8", "save8", "load24", "save24"}) =>
      /\ last.res.fopens \in {0, 1}
      /\ last.res.fcloses = last.res.fopens

\* a load has opened its file and failed at a later step
C22_Witness ==
    /\ last.op = "load24"
    /\ last.res.fopens = 1
    /\ last.res.error = "allocation"
    /\ last.res.fcloses = 1

\* C24: a bmp24_writePixelData that wrote all it had to write has written
\* exactly height rows from the pixel-data offset on, in-memory row
\* height - 1 first and row 0 last, each the width * 3 bytes of the row in
\* the order blue, green, red and then (4 - (width * 3) mod 4) mod 4 bytes
\* that are 0
C24_RowsWritten ==
    (last.op = "save24" /\ last.res.complete) =>
      LET offset  == img24.header.offset
          padding == (4 - ((img24.width * 3) % 4)) % 4
          rowsize == img24.width * 3 + padding
      IN  /\ Len(disk.bytes) = offset + img24.height * rowsize
          /\ \A r \in 0..(img24.height - 1) :
               LET at  == offset + r * rowsize
                   row == img24.data[img24.height - r]
               IN  /\ \A x \in 1..img24.width :
                        /\ disk.bytes[at + 3 * x - 2] = row[x].blue
                        /\ disk.bytes[at + 3 * x - 1] = row[x].green
                        /\ disk.bytes[at + 3 * x] = row[x].red
                   /\ \A k \in 1..padding :
                        disk.bytes[at + img24.width * 3 + k] = 0

\* an image of two different rows of 3 pixels, 3 padding bytes a row, has
\* been written
C24_Witness ==
    /\ last.op = "save24" /\ last.res.complete
    /\ img24.width = 3 /\ img24.height = 2
    /\ img24.data[1] # img24.data[2]
    /\ Len(disk.bytes) = 78

\* C29: for every width > 0 and height > 0 of an int, the row size the
\* headers are computed from equals the row size written, and so the file
\* size in the header is 54 plus the number of pixel-data bytes written
C29_SizesAgree ==
    (last.op = "sizes") =>
      /\ last.row_size = last.row_size_padded
      /\ U32(last.size) = Norm(AddC(Limbs(54), last.written, 0))

\* C23: whatever menu actions were taken, at most one image is resident:
\* image_loaded is 0, 8 or 24, current_img8 is non-null exactly when
\* image_loaded is 8 and current_img24 is non-null exactly when it is 24
C23_OneImageResident ==
    /\ image_loaded \in {0, 8, 24}
    /\ ~img8.null <=> image_loaded = 8
    /\ ~img24.null <=> image_loaded = 24

\* an 8-bit image was opened while a 24-bit image was loaded
C23_Witness ==
    /\ last.op = "open" /\ last.before.image_loaded = 24
    /\ image_loaded = 8 /\ ~img8.null /\ img24.null

\* C25: the menu's Save passes the current image as the image and the path
\* as the path of the save, for a 24-bit image as for an 8-bit image, so the
\* file at the path receives the current image
C25_SaveWritesImage ==
    (last.op \in {"save", "crash"} /\ last.made # <<>>) =>
      /\ last.used = (IF image_loaded = 24 THEN heap.at24 ELSE heap.at8)
      /\ disk[last.path] =
           (IF image_loaded = 24 THEN bmp24_saveImage(img24, NoFile, Env0).file
            ELSE bmp8_saveImage(img8, NoFile, Env0).file)

\* C27: every image a loader returned is freed at most once, and exactly once
\* when the program has quit; Save, Apply Filter and Display Info pass no
\* NULL and no freed image to the library
C27_FreedOnce ==
    /\ \A i \in 1..Len(heap.frees) : heap.frees[i] <= 1
    /\ (last.op = "quit") =>
         \A i \in 1..Len(heap.frees) : heap.frees[i] = 1
    /\ (last.op \in {"save", "crash", "filter", "info"} /\ last.made # <<>>) =>
         /\ last.used # 0
         /\ last.used > 0 => last.before.heap.frees[last.used] = 0

\* two images were opened, the second one filtered, and the program has quit
C27_Witness ==
    /\ last.op = "quit" /\ last2.op = "filter" /\ last2.used = 2
    /\ heap.frees = <<1, 1>>

\* C28: Open releases the image it holds before it tries to load, tries the
\* 24-bit loader first and the 8-bit loader only if that fails; when both
\* fail no image is loaded: image_loaded is 0, both handles are NULL, the
\* current filename is empty and the image held before has been freed
C28_OpenReleasesFirst ==
    (last.op = "open") =>
      /\ last.made \in {<<"free", "load24">>, <<"free", "load24", "load8">>}
      /\ last.made = <<"free", "load24">> <=> ~img24.null
      /\ (img24.null /\ img8.null) =>
           /\ image_loaded = 0 /\ current_filename = ""
           /\ \A i \in 1..Len(heap.frees) : heap.frees[i] = 1

\* a file that is no BMP was opened while a 24-bit image was loaded
C28_Witness ==
    /\ last.op = "open" /\ last.path = "text.bmp"
    /\ last.before.image_loaded = 24 /\ ~last.before.current_img24.null
    /\ image_loaded = 0 /\ img24.null /\ img8.null
    /\ heap.frees = <<1>>

----------------------------------------------------------------------------
(* Properties of the point operations *)

\* all channel bytes of 24-bit pixel data, row after row
RECURSIVE Channels(_)
Channels(data) ==
    IF data = <<>> THEN <<>> ELSE BytesOfRow(data[1]) \o Channels(Tail(data))

\* the bytes of the image an operation of the kind op worked on, now
BytesNow(op) ==
    IF op \in {"negative24", "brightness24"}
      THEN Channels(DataOf(img24)) ELSE DataOf(img8)

\* the bytes of the image before the call e
BytesBefore(e) ==
    IF e.op \in {"negative24", "brightness24"} THEN Channels(e.pre) ELSE e.pre

\* C8: bmp8_negative and bmp24_negative map each byte v to 255 - v, and
\* applied twice in a row they restore the bytes the image had
C8_NegativeInvolution ==
    /\ last.op \in {"negative8", "negative24"} =>
         /\ Len(BytesNow(last.op)) = Len(BytesBefore(last))
         /\ \A i \in 1..Len(BytesBefore(last)) :
              BytesNow(last.op)[i] = 255 - BytesBefore(last)[i]
    /\ (last.op \in {"negative8", "negative24"} /\ last2.op = last.op) =>
         BytesNow(last.op) = BytesBefore(last2)

\* bmp24_negative ran twice on an image and its pixels are back
C8_Witness ==
    /\ last.op = "negative24" /\ last2.op = "negative24"
    /\ last2.pre # <<>>
    /\ img24.data = last2.pre
    /\ img24.data # last.pre

\* max(0, min(255, b + d)) of the mathematical sum, for a byte b
MathClamp(b, d) ==
    IF d > 255 THEN 255 ELSE IF d < -255 THEN 0 ELSE Max(0, Min(255, b + d))

\* C9: bmp8_brightness and bmp24_brightness replace each byte b by
\* max(0, min(255, b + d)) of the mathematical sum, for every int d
C9_BrightnessClamp ==
    last.op \in {"brightness8", "brightness24"} =>
      /\ Len(BytesNow(last.op)) = Len(BytesBefore(last))
      /\ \A i \in 1..Len(BytesBefore(last)) :
           BytesNow(last.op)[i] = MathClamp(BytesBefore(last)[i], last.arg)

\* clamp(t, 0, 255)
ClampT(t) == Max(0, Min(255, t))

\* C10: bmp8_threshold maps a byte b to 255 if b >= clamp(t, 0, 255) and to
\* 0 otherwise, for every int t
C10_Threshold ==
    last.op = "threshold8" =>
      /\ Len(DataOf(img8)) = Len(last.pre)
      /\ \A i \in 1..Len(last.pre) :
           img8.data[i] = IF last.pre[i] >= ClampT(last.arg) THEN 255 ELSE 0

\* a threshold above 255 sent the bytes 255 to 255 and the others to 0
C10_Witness ==
    /\ last.op = "threshold8" /\ last.arg > 255
    /\ \E i, j \in 1..Len(last.pre) :
         /\ last.pre[i] = 255 /\ img8.data[i] = 255
         /\ last.pre[j] = 254 /\ img8.data[j] = 0

\* round(0.299 R + 0.587 G + 0.114 B) of the exact sum, clamped to 0..255
ExactGray(p) ==
    Max(0, Min(255, (299 * p.red + 587 * p.green + 114 * p.blue + 500) \div 1000))

\* C11: after bmp24_grayscale every pixel has red = green = blue = gray with
\* gray = round(0.299 R + 0.587 G + 0.114 B) of its channels before the call,
\* clamped to 0..255
C11_GrayscaleRound ==
    (last.op = "grayscale24" /\ ~img24.null) =>
      \A y \in 1..img24.height : \A x \in 1..img24.width :
        LET gray == ExactGray(last.pre[y][x])
        IN  img24.data[y][x] = t_pixel(gray, gray, gray)

----------------------------------------------------------------------------
(* Filters *)

\* the pixel of an 8-bit image at row y, column x (from 0), at its place
\* y * width + x in the buffer
At8(img, y, x) == img.data[y * img.width + x + 1]

\* row y or column x lies within radius of an edge of the image
NearEdge(img, y, x, radius) ==
    \/ y < radius \/ y >= img.height - radius
    \/ x < radius \/ x >= img.width - radius

ValidKernel(e) == ~e.kernel.null /\ e.kernelSize > 0 /\ e.kernelSize % 2 = 1

\* C12: after bmp8_applyFilter with a valid odd kernelSize the call has stayed
\* within the buffers and every pixel whose row or column lies within
\* kernelRadius of an edge has its pre-filter value
C12_BorderUnchanged ==
    (last.op = "filter8" /\ ValidKernel(last) /\ ~img8.null) =>
      /\ ~last.fault
      /\ \A y \in 0..(img8.height - 1) : \A x \in 0..(img8.width - 1) :
           NearEdge(img8, y, x, last.kernelSize \div 2)
             => At8(img8, y, x) = At8(last.before, y, x)

RoundDiv(n, d) ==
    IF n >= 0 THEN (2 * n + d) \div (2 * d) ELSE -((d - 2 * n) \div (2 * d))

\* the nearest of 0..n-1 to v
Nearest(v, n) == Max(0, Min(n - 1, v))

\* the offsets of the taps of a kernel of size n
Offsets(n) == (-(n \div 2))..(n \div 2)

\* the weighted sum, times kernel.div, for channel ch at row y, column x of
\* the pixels data (height rows of width pixels), every tap outside the image
\* reading the pixel at the nearest valid row and column
TapTotal24(data, width, height, kernel, n, y, x, ch) ==
    SumF([o \in Offsets(n) \X Offsets(n) |->
            kernel.taps[o[1] + n \div 2 + 1][o[2] + n \div 2 + 1]
              * data[Nearest(y + o[1], height) + 1]
                    [Nearest(x + o[2], width) + 1][ch]])

\* C13: after bmp24_applyFilter with a valid kernel every channel of every
\* pixel, edges and corners included, is round(sum) clamped to 0..255, the
\* taps outside the image reading the nearest valid row and column; for a
\* 3x3 kernel on an image at least 2x2 the corner at row 0, column 0 takes
\* four of its nine taps from the corner pixel itself
C13_EveryPixelConvolved ==
    (last.op = "filter24" /\ last.err = "none") =>
      LET pre == last.before
          k   == last.kernel
      IN  /\ \A y \in 0..(pre.height - 1) : \A x \in 0..(pre.width - 1) :
               \A ch \in {"blue", "green", "red"} :
                 img24.data[y + 1][x + 1][ch] =
                   Max(0, Min(255,
                     RoundDiv(TapTotal24(pre.data, pre.width, pre.height, k,
                                         last.kernelSize, y, x, ch), k.div)))
          /\ (last.kernelSize = 3 /\ pre.width >= 2 /\ pre.height >= 2) =>
               \A ch \in {"blue", "green", "red"} :
                 img24.data[1][1][ch] =
                   Max(0, Min(255,
                     RoundDiv((k.taps[1][1] + k.taps[1][2] + k.taps[2][1]
                                 + k.taps[2][2]) * pre.data[1][1][ch]
                              + (k.taps[1][3] + k.taps[2][3]) * pre.data[1][2][ch]
                              + (k.taps[3][1] + k.taps[3][2]) * pre.data[2][1][ch]
                              + k.taps[3][3] * pre.data[2][2][ch],
                              k.div)))

\* a 3x3 blur has recomputed an image of 3x3 pixels: no pixel is as before
C13_Witness ==
    /\ last.op = "filter24" /\ last.err = "none"
    /\ last.kernel = BoxBlur
    /\ img24.width = 3 /\ img24.height = 3
    /\ \A y \in 1..3 : \A x \in 1..3 :
         img24.data[y][x] # last.before.data[y][x]

\* the weighted sum, times kernel.div, at row y, column x of an 8-bit buffer
TapTotal8(img, kernel, n, y, x) ==
    SumF([o \in Offsets(n) \X Offsets(n) |->
            kernel.taps[o[1] + n \div 2 + 1][o[2] + n \div 2 + 1]
              * At8(img, y + o[1], x + o[2])])

\* C14: the new value of every pixel a filter writes is a function of the
\* pixels before the call only: the 24-bit result is the convolution of the
\* pre-filter buffer at every pixel, the 8-bit result at every pixel away
\* from the edges, whatever the loops have overwritten before they reach it
C14_FromSnapshot ==
    /\ (last.op = "filter24" /\ last.err = "none") =>
         \A y \in 0..(img24.height - 1) : \A x \in 0..(img24.width - 1) :
           img24.data[y + 1][x + 1] =
             bmp24_convolution(last.before, x, y, last.kernel,
                               last.kernelSize, last.before.data)
    /\ (last.op = "filter8" /\ last.err = "none" /\ ~last.fault) =>
         \A y \in 0..(img8.height - 1) : \A x \in 0..(img8.width - 1) :
           ~NearEdge(img8, y, x, last.kernelSize \div 2) =>
             At8(img8, y, x) =
               Max(0, Min(255,
                 RoundDiv(TapTotal8(last.before, last.kernel,
                                    last.kernelSize, y, x),
                          last.kernel.div)))

\* a filter has changed two neighbouring pixels of a 24-bit image, each of
\* which is a tap of the other
C14_Witness ==
    /\ last.op = "filter24" /\ last.err = "none"
    /\ img24.width >= 2
    /\ img24.data[1][1] # last.before.data[1][1]
    /\ img24.data[1][2] # last.before.data[1][2]

\* C15: bmp8_applyFilter and bmp24_applyFilter called on an image with a null
\* kernel, a kernelSize <= 0 or an even kernelSize report an invalid kernel
\* and leave the pixels, the dimensions and the headers as they were
C15_InvalidKernel ==
    /\ (last.op = "filter24" /\ ~last.before.null /\ ~ValidKernel(last)) =>
         last.err = "kernel" /\ img24 = last.before
    /\ (last.op = "filter8" /\ ~last.before.null /\ ~ValidKernel(last)) =>
         last.err = "kernel" /\ img8 = last.before /\ ~last.fault

\* a filter was called with an even kernelSize on an open 24-bit image
C15_Witness ==
    /\ last.op = "filter24" /\ ~last.before.null
    /\ ~last.kernel.null /\ last.kernelSize = 2
    /\ img24 = last.before

----------------------------------------------------------------------------
(* Allocation *)

\* C19: the image bmp24_allocate(width, height) returns for width > 0 and
\* height > 0 has every channel of every pixel 0
C19_AllocateZeroed ==
    (last.op = "allocate24" /\ ~img24.null) =>
      \A y \in 1..img24.height : \A x \in 1..img24.width :
        img24.data[y][x] = t_pixel(0, 0, 0)

----------------------------------------------------------------------------
(* Equalization table *)

\* every pixel of the image has red = green = blue
GreyImage(img) ==
    \A r \in 1..img.height : \A c \in 1..img.width :
      img.data[r][c].red = img.data[r][c].green
        /\ img.data[r][c].green = img.data[r][c].blue

\* the 8-bit image of the same dimensions that holds the red channel, with
\* dataSize = width * height
Intensity(img) ==
    [null |-> FALSE, width |-> img.width, height |-> img.height,
     colorDepth |-> 8, dataSize |-> img.width * img.height,
     data |-> [i \in 1..(img.width * img.height) |->
                 img.data[(i - 1) \div img.width + 1]
                         [((i - 1) % img.width) + 1].red]]

\* C30: on an image whose pixels all have red = green = blue, bmp24_equalize
\* gives what bmp8_equalize gives on the image of the intensities: the three
\* channels of a pixel of intensity g become lut[g], lut the table that
\* bmp8_computeEqualizedHistogram builds from the histogram of the
\* intensities
C30_GreyEqualize ==
    (last.op = "equalize24" /\ last.oom = 0 /\ GreyImage(last.before)) =>
      LET grey == Intensity(last.before)
          eq8  == bmp8_equalize(grey, Env0)
          lut  == bmp8_computeEqualizedHistogram(
                    bmp8_computeHistogram(grey, Env0), grey.dataSize, Env0)
      IN  \A r \in 1..img24.height : \A c \in 1..img24.width :
            LET i == (r - 1) * img24.width + c
            IN  /\ img24.data[r][c] = t_pixel(lut[grey.data[i]],
                                              lut[grey.data[i]],
                                              lut[grey.data[i]])
                /\ eq8.data[i] = lut[grey.data[i]]

\* a grey image with the levels 7, 9 and 200 was equalized: 7 became 0, 9
\* became 170 and 200 became 255
C30_Witness ==
    /\ last.op = "equalize24" /\ last.oom = 0 /\ GreyImage(last.before)
    /\ last.before.data = <<[x \in 1..4 |-> LET g == <<9, 200, 7, 7>>[x]
                                             IN  t_pixel(g, g, g)],
                            [x \in 1..4 |-> LET g == <<7, 7, 7, 9>>[x]
                                             IN  t_pixel(g, g, g)]>>
    /\ img24.data[1][1] = t_pixel(170, 170, 170)
    /\ img24.data[1][2] = t_pixel(255, 255, 255)
    /\ img24.data[2][1] = t_pixel(0, 0, 0)

\* C16: for every histogram and every numPixels > 0 the table
\* bmp8_computeEqualizedHistogram returns does not decrease and every entry
\* lies in 0..255
C16_LutMonotone ==
    (last.op = "equalized" /\ last.numPixels > 0 /\ last.hist_eq # <<>>) =>
      /\ \A i \in 0..254 : last.hist_eq[i] <= last.hist_eq[i + 1]
      /\ \A i \in 0..255 : last.hist_eq[i] \in 0..255

\* the running sum of the histogram at level i
CdfAt(hist, i) == SumF([v \in {v \in 0..i : hist[v] # 0} |-> hist[v]])

\* the levels that occur
Occurring(hist) == {v \in 0..255 : hist[v] # 0}

\* min(255, round(max(cdf - cdfMin, 0) * 255 / d)) for d > 0
LutFormula(cdf, cdfMin, d) ==
    IF cdf <= cdfMin THEN 0
    ELSE IF cdf - cdfMin >= d THEN 255
    ELSE RoundDiv(255 * (cdf - cdfMin), d)

\* C17: the table is the identity when numPixels - cdfMin <= 0 and otherwise
\* lut[i] = min(255, round(max(cdf[i] - cdfMin, 0) * 255 / (numPixels - cdfMin)));
\* when numPixels is the number of pixels counted and two levels occur, the
\* lowest occurring level maps to 0 and the highest to 255
C17_LutFormula ==
    (last.op = "equalized" /\ last.hist_eq # <<>>) =>
      LET hist   == last.hist
          cdfMin == IF Occurring(hist) = {} THEN 0
                    ELSE hist[CHOOSE v \in Occurring(hist) :
                                \A u \in Occurring(hist) : v <= u]
          d      == last.numPixels - cdfMin
      IN  /\ d <= 0 => \A i \in 0..255 : last.hist_eq[i] = i
          /\ d > 0 => \A i \in 0..255 :
               last.hist_eq[i] = LutFormula(CdfAt(hist, i), cdfMin, d)
          /\ (last.numPixels = Total(hist) /\ Cardinality(Occurring(hist)) >= 2) =>
               \A v \in Occurring(hist) :
                 /\ (\A u \in Occurring(hist) : v <= u) => last.hist_eq[v] = 0
                 /\ (\A u \in Occurring(hist) : v >= u) => last.hist_eq[v] = 255

====
